---------------------------- MODULE Spec2Model ----------------------------
(***************************************************************************)
(* Model of the symmetric tridiagonal eigensolvers Syt_EigQR::Solve and    *)
(* Syt_EigVecQR::Solve of the IND.Math.LAPACK sample, together with the    *)
(* helpers they call (Syt_Norm, Vec_Rescl, Vec_Scale, Aux_Eig2,            *)
(* Aux_EigVec2, Aux_PlnRot2, Mat_RotSeq) and the entry guards of           *)
(* Sym_Rdto_Syt and Ort_From_Syt, driven in the order of                   *)
(* Example_Eigensystem in main.cpp.                                        *)
(*                                                                         *)
(* T_Scalar is instantiated by a short binary fixed-point format with      *)
(* IEEE-style infinities and a NaN: a finite scalar is an integer count of *)
(* 1/unit steps, results are rounded toward zero and saturate to +-Inf.    *)
(* The format has no negative zero.                                        *)
(***************************************************************************)
EXTENDS Integers, Sequences, FiniteSets, TLC

(***************************************************************************)
(* The scalar format.                                                      *)
(***************************************************************************)
\* unit<T_Scalar> = T_Scalar(1): the raw value of 1.0 (8 fraction bits)
unit == 256
\* minValue<T_Scalar>: the smallest positive scalar (one raw step)
minValue == 1
\* maxValue<T_Scalar>: the largest finite scalar
maxValue == 131071
\* infinity<T_Scalar> and undefined<T_Scalar> (quiet NaN)
infinity == maxValue + 1
undefined == maxValue + 2

\* sequencing: the value v is computed once and handed to F, as a C++
\* statement computes a local once
The(S) == CHOOSE v \in S : TRUE
Let(v, F(_)) == The({F(x) : x \in {v}})

IAbs(z) == [x \in Int |-> IF x < 0 THEN -x ELSE x][z]
ISgn(z) == [x \in Int |-> IF x < 0 THEN -1 ELSE IF x > 0 THEN 1 ELSE 0][z]

IsUndefined(x) == x = undefined
IsInf(a) == [x \in Int |-> x = infinity \/ x = -infinity][a]

\* rounding of an exact raw result into the format: saturate to +-Inf
Rnd(z) ==
  [x \in Int |-> IF x > maxValue THEN infinity
                 ELSE IF x < -maxValue THEN -infinity ELSE x][z]

\* floor of the square root of a natural number, by bisection
ISqrtIter[z \in Nat, lo \in Nat, hi \in Nat] ==
  IF hi - lo <= 1 THEN lo
  ELSE IF ((lo + hi) \div 2) * ((lo + hi) \div 2) <= z
       THEN ISqrtIter[z, (lo + hi) \div 2, hi]
       ELSE ISqrtIter[z, lo, (lo + hi) \div 2]
ISqrt(z) == ISqrtIter[z, 0, 46340]

\* comparisons: every ordered comparison with a NaN is false
Lt(a, b) == [x, y \in Int |-> ~IsUndefined(x) /\ ~IsUndefined(y) /\ x < y][a, b]
Le(a, b) == [x, y \in Int |-> ~IsUndefined(x) /\ ~IsUndefined(y) /\ x <= y][a, b]
Gt(a, b) == Lt(b, a)
Ge(a, b) == Le(b, a)
Eq(a, b) == [x, y \in Int |-> ~IsUndefined(x) /\ ~IsUndefined(y) /\ x = y][a, b]
Ne(a, b) == ~Eq(a, b)

Neg(a) == [x \in Int |-> IF IsUndefined(x) THEN undefined ELSE -x][a]
Abs(a) == [x \in Int |-> IF IsUndefined(x) THEN undefined ELSE IAbs(x)][a]

Add(a, b) ==
  [x, y \in Int |->
     IF IsUndefined(x) \/ IsUndefined(y) THEN undefined
     ELSE IF IsInf(x) THEN (IF IsInf(y) /\ y # x THEN undefined ELSE x)
     ELSE IF IsInf(y) THEN y
     ELSE Rnd(x + y)][a, b]
Sub(a, b) == Add(a, Neg(b))

\* |x*y| / unit rounded toward zero, computed without leaving 32 bits
MulMag(x, y) == (x \div unit) * y + ((x % unit) * y) \div unit
Mul(a, b) ==
  [x, y \in Int |->
     IF IsUndefined(x) \/ IsUndefined(y) THEN undefined
     ELSE IF IsInf(x) \/ IsInf(y)
          THEN (IF x = 0 \/ y = 0 THEN undefined ELSE ISgn(x) * ISgn(y) * infinity)
     ELSE ISgn(x) * ISgn(y) * Rnd(MulMag(IAbs(x), IAbs(y)))][a, b]
Div(a, b) ==
  [x, y \in Int |->
     IF IsUndefined(x) \/ IsUndefined(y) THEN undefined
     ELSE IF IsInf(x) THEN (IF IsInf(y) THEN undefined
                            ELSE (IF y < 0 THEN -1 ELSE 1) * ISgn(x) * infinity)
     ELSE IF IsInf(y) THEN 0
     ELSE IF y = 0 THEN (IF x = 0 THEN undefined ELSE ISgn(x) * infinity)
     ELSE ISgn(x) * ISgn(y) * Rnd((IAbs(x) * unit) \div IAbs(y))][a, b]

\* IntSignOrZero: 0 for a NaN, as both comparisons fail
IntSignOrZero(a) == [x \in Int |-> IF Gt(x, 0) THEN 1 ELSE IF Lt(x, 0) THEN -1 ELSE 0][a]
IsZero(x) == Eq(0, x)
IsUnit(x) == Eq(unit, x)
Sqr(x) == [y \in Int |-> Mul(y, y)][x]
Inv(x) == Div(unit, x)
Sqrt(a) ==
  [x \in Int |-> IF IsUndefined(x) \/ x < 0 THEN undefined
                 ELSE IF x = infinity THEN infinity
                 ELSE ISqrt(x * unit)][a]
\* std::hypot: Inf when either argument is infinite, no intermediate overflow
Hypot(a, b) ==
  [x, y \in Int |->
     IF IsInf(x) \/ IsInf(y) THEN infinity
     ELSE IF IsUndefined(x) \/ IsUndefined(y) THEN undefined
     ELSE IF IAbs(x) < 16384 /\ IAbs(y) < 16384
          THEN Rnd(ISqrt(x * x + y * y))
     ELSE Rnd(16 * ISqrt((IAbs(x) \div 16) * (IAbs(x) \div 16)
                         + (IAbs(y) \div 16) * (IAbs(y) \div 16)))][a, b]
\* std::copysign: the magnitude of to with the sign of from
CopySign(to, from) ==
  [x, y \in Int |-> IF IsUndefined(x) THEN undefined
                    ELSE IF ~IsUndefined(y) /\ y < 0 THEN -IAbs(x) ELSE IAbs(x)][to, from]
Clamp(value, lo, hi) ==
  [x \in Int |-> IF Gt(x, hi) THEN hi ELSE IF Lt(x, lo) THEN lo ELSE x][value]
Max(a, b) == [x, y \in Int |-> IF Gt(x, y) THEN x ELSE y][a, b]
Min(a, b) == [x, y \in Int |-> IF Lt(x, y) THEN x ELSE y][a, b]
\* _oneHalf<T_Scalar> = Inv( T_Scalar{2} )
oneHalf == Inv(2 * unit)


(***************************************************************************)
(* Arrays are functions over their allocated index range.  A read outside  *)
(* the range yields an arbitrary scalar (here a NaN) and a write outside   *)
(* it is dropped; every access is also recorded in the access log, so that *)
(* an out-of-range index is visible in the state.                          *)
(***************************************************************************)
Rd(arr, i) == IF i \in DOMAIN arr THEN arr[i] ELSE undefined
Wr(arr, i, v) == IF i \in DOMAIN arr THEN [arr EXCEPT ![i] = v] ELSE arr

\* Vec_Zero( cnt, x + off, 1 )
Vec_Zero(cnt, x, off) ==
  Let(x, LAMBDA x0 : [i \in DOMAIN x0 |-> IF off <= i /\ i < off + cnt THEN 0 ELSE x0[i]])

\* Vec_Scale( cnt, alpha, x + off, 1 ):  x := alpha*x
Vec_Scale(cnt, alpha, x, off) ==
  Let(IF IsZero(alpha) THEN Vec_Zero(cnt, x, off) ELSE x, LAMBDA x1 :
      IF ~IsUnit(alpha)
      THEN [i \in DOMAIN x1 |->
             IF off <= i /\ i < off + cnt THEN Mul(x1[i], alpha) ELSE x1[i]]
      ELSE x1)

\* variant: the test of cfrom for zero is negated
Vec_Rescl_BadArg_Negated(cfrom, cto) ==
  IF ~IsZero(cfrom) \/ IsUndefined(cfrom) THEN 1
  ELSE IF IsUndefined(cto) THEN 2
  ELSE 0
\* Vec_Rescl argument validation: 0 when accepted, else the 1-based index
\* of the rejected argument carried by BadArgument
Vec_Rescl_BadArg(cfrom, cto) ==
  IF IsZero(cfrom) \/ IsUndefined(cfrom) THEN 1
  ELSE IF IsUndefined(cto) THEN 2
  ELSE 0

\* the do/while loop of Vec_Rescl (the branch taken when isExact is false),
\* with smlnum = minValue and bignum = Inv( smlnum )
RECURSIVE Vec_Rescl_Loop(_, _, _, _, _)
Vec_Rescl_Loop(cfromc, ctoc, cnt, x, off) ==
  Let(Mul(cfromc, minValue), LAMBDA cfrom1 :
  Let(Div(ctoc, Inv(minValue)), LAMBDA cto1 :
      IF Eq(cfrom1, cfromc)
      THEN Vec_Scale(cnt, Div(ctoc, cfromc), x, off)
      ELSE IF Eq(cto1, ctoc)
      THEN Vec_Scale(cnt, ctoc, x, off)
      ELSE IF Gt(Abs(cfrom1), Abs(ctoc)) /\ ~IsZero(ctoc)
      THEN Let(Vec_Scale(cnt, minValue, x, off), LAMBDA x1 :
               Vec_Rescl_Loop(cfrom1, ctoc, cnt, x1, off))
      ELSE IF Gt(Abs(cto1), Abs(cfromc))
      THEN Let(Vec_Scale(cnt, Inv(minValue), x, off), LAMBDA x1 :
               Vec_Rescl_Loop(cfromc, cto1, cnt, x1, off))
      ELSE Vec_Scale(cnt, Div(ctoc, cfromc), x, off)))

\* Vec_Rescl( cfrom, cto, cnt, x + off, 1 ) once the arguments are accepted
Vec_Rescl(cfrom, cto, cnt, x, off) ==
  IF cnt = 0 THEN x
  ELSE IF Eq(cfrom, cto) THEN x
  ELSE Vec_Rescl_Loop(cfrom, cto, cnt, x, off)

\* Syt_Norm( NormType::Max, cnt, d + off, e + off )
Syt_Norm_MaxOf(anorm, sum) == IF Lt(anorm, sum) \/ IsUndefined(sum) THEN sum ELSE anorm
RECURSIVE Syt_Norm_MaxLoop(_, _, _, _, _, _)
Syt_Norm_MaxLoop(i, cnt, d, e, off, anorm) ==
  IF i < cnt - 1
  THEN Let(Syt_Norm_MaxOf(anorm, Abs(Rd(d, off + i))), LAMBDA a1 :
       Let(Syt_Norm_MaxOf(a1, Abs(Rd(e, off + i))), LAMBDA a2 :
           Syt_Norm_MaxLoop(i + 1, cnt, d, e, off, a2)))
  ELSE anorm
Syt_Norm_Max(cnt, d, e, off) ==
  IF cnt = 0 THEN 0
  ELSE Syt_Norm_MaxLoop(0, cnt, d, e, off, Abs(Rd(d, off + cnt - 1)))

\* Aux_Eig2: rt from adf = |a - c| and ab = |2b|
Eig2_rt(adf, ab) ==
  IF Gt(adf, ab) THEN Mul(adf, Hypot(unit, Div(ab, adf)))
  ELSE IF Lt(adf, ab) THEN Mul(ab, Hypot(unit, Div(adf, ab)))
  ELSE Mul(ab, Sqrt(2 * unit))
\* Aux_Eig2: the switch on IntSignOrZero( sm )
Eig2_rt1(sm, rt) ==
  IF IntSignOrZero(sm) = -1 THEN Mul(oneHalf, Sub(sm, rt))
  ELSE IF IntSignOrZero(sm) = 1 THEN Mul(oneHalf, Add(sm, rt))
  ELSE Mul(oneHalf, rt)
Eig2_rt2(sm, rt, rt1, b, acmx, acmn) ==
  IF IntSignOrZero(sm) = 0 THEN Mul(Neg(oneHalf), rt)
  ELSE Sub(Mul(Div(acmx, rt1), acmn), Mul(Div(b, rt1), b))

\* Aux_Eig2( a, b, c, rt1, rt2 ): the pair <<rt1, rt2>>
Aux_Eig2(a, b, c) ==
  Let(Add(a, c), LAMBDA sm :
  Let(Eig2_rt(Abs(Sub(a, c)), Abs(Add(b, b))), LAMBDA rt :
  Let(Eig2_rt1(sm, rt), LAMBDA rt1 :
      <<rt1, Eig2_rt2(sm, rt, rt1, b,
                      IF Gt(Abs(a), Abs(c)) THEN a ELSE c,
                      IF Gt(Abs(a), Abs(c)) THEN c ELSE a)>>)))

\* Aux_EigVec2, "Compute the eigenvalues": rt from adf = |a - c| and ab = |2b|
EigVec2_rt(adf, ab) ==
  IF Gt(adf, ab) THEN Mul(adf, Hypot(unit, Div(ab, adf)))
  ELSE IF Lt(adf, ab) THEN Mul(ab, Hypot(unit, Div(adf, ab)))
  ELSE Mul(ab, Sqrt(2 * unit))
\* Aux_EigVec2: the switch on IntSignOrZero( sm )
EigVec2_rt1(sm, rt) ==
  IF IntSignOrZero(sm) = -1 THEN Mul(oneHalf, Sub(sm, rt))
  ELSE IF IntSignOrZero(sm) = 1 THEN Mul(oneHalf, Add(sm, rt))
  ELSE Mul(oneHalf, rt)
\* variant: the two products of rt2 are added instead of subtracted
EigVec2_rt2_SignSlip(sm, rt, rt1, b, acmx, acmn) ==
  IF IntSignOrZero(sm) = 0 THEN Mul(Neg(oneHalf), rt)
  ELSE Add(Mul(Div(acmx, rt1), acmn), Mul(Div(b, rt1), b))
EigVec2_rt2(sm, rt, rt1, b, acmx, acmn) ==
  IF IntSignOrZero(sm) = 0 THEN Mul(Neg(oneHalf), rt)
  ELSE Sub(Mul(Div(acmx, rt1), acmn), Mul(Div(b, rt1), b))
\* Aux_EigVec2, "Compute the eigenvector": <<cs1, sn1>> before the final
\* exchange, from cs = df +- rt
EigVec2_Vector(cs, tb, ab) ==
  IF Gt(Abs(cs), ab)
  THEN Let(Div(Neg(tb), cs), LAMBDA ct :
       Let(Inv(Hypot(unit, ct)), LAMBDA sn1 : <<Mul(ct, sn1), sn1>>))
  ELSE IF IsZero(ab) THEN <<unit, 0>>
  ELSE Let(Div(Neg(cs), tb), LAMBDA tn :
       Let(Inv(Hypot(unit, tn)), LAMBDA cs1 : <<cs1, Mul(tn, cs1)>>))
\* if( sgn1 == sgn2 ){ tn = cs1; cs1 = -sn1; sn1 = tn; }
EigVec2_Exchange(v, sgn1, sgn2) == IF sgn1 = sgn2 THEN <<Neg(v[2]), v[1]>> ELSE v

\* Aux_EigVec2( a, b, c, rt1, rt2, cs1, sn1 ): <<rt1, rt2, cs1, sn1>>
Aux_EigVec2(a, b, c) ==
  Let(Add(a, c), LAMBDA sm :
  Let(Sub(a, c), LAMBDA df :
  Let(Add(b, b), LAMBDA tb :
  Let(EigVec2_rt(Abs(df), Abs(tb)), LAMBDA rt :
  Let(EigVec2_rt1(sm, rt), LAMBDA rt1 :
  Let(EigVec2_Vector(IF IntSignOrZero(df) >= 0 THEN Add(df, rt) ELSE Sub(df, rt),
                     tb, Abs(tb)), LAMBDA v :
      <<rt1, EigVec2_rt2(sm, rt, rt1, b,
                         IF Gt(Abs(a), Abs(c)) THEN a ELSE c,
                         IF Gt(Abs(a), Abs(c)) THEN c ELSE a)>>
      \o EigVec2_Exchange(v, IF IntSignOrZero(sm) = -1 THEN -1 ELSE 1,
                             IF IntSignOrZero(df) >= 0 THEN 1 ELSE -1)))))))

\* the two rescaling loops of Aux_PlnRot2; a loop whose body no longer
\* changes f1 and g1 while its condition holds never exits (hang)
RECURSIVE PlnRot2_Down(_, _, _)
PlnRot2_Down(f1, g1, count) ==
  Let(Mul(f1, minValue), LAMBDA f2 :
  Let(Mul(g1, minValue), LAMBDA g2 :
      IF ~Ge(maxValue, Max(Abs(f2), Abs(g2)))
      THEN [f1 |-> f2, g1 |-> g2, count |-> count + 1, hang |-> FALSE]
      ELSE IF f2 = f1 /\ g2 = g1
      THEN [f1 |-> f2, g1 |-> g2, count |-> count + 1, hang |-> TRUE]
      ELSE PlnRot2_Down(f2, g2, count + 1)))
RECURSIVE PlnRot2_Up(_, _, _)
PlnRot2_Up(f1, g1, count) ==
  Let(Mul(f1, maxValue), LAMBDA f2 :
  Let(Mul(g1, maxValue), LAMBDA g2 :
      IF ~Le(Max(Abs(f2), Abs(g2)), minValue)
      THEN [f1 |-> f2, g1 |-> g2, count |-> count + 1, hang |-> FALSE]
      ELSE IF f2 = f1 /\ g2 = g1
      THEN [f1 |-> f2, g1 |-> g2, count |-> count + 1, hang |-> TRUE]
      ELSE PlnRot2_Up(f2, g2, count + 1)))
\* while( count-- ){ r *= factor; }
RECURSIVE MulTimes(_, _, _)
MulTimes(r, factor, count) ==
  IF count = 0 THEN r
  ELSE Let(Mul(r, factor), LAMBDA r1 : MulTimes(r1, factor, count - 1))

\* the end of Aux_PlnRot2: cs is made positive when |f| > |g|
PlnRot2_Out(f, g, out) ==
  IF Gt(Abs(f), Abs(g)) /\ IntSignOrZero(out.cs) < 0
  THEN [cs |-> Neg(out.cs), sn |-> Neg(out.sn), r |-> Neg(out.r), hang |-> out.hang]
  ELSE out
\* r = Hypot( f1, g1 ); cs = f1/r; sn = g1/r; while( count-- ){ r *= factor; }
PlnRot2_Scaled(f, g, sc, factor) ==
  Let(Hypot(sc.f1, sc.g1), LAMBDA r0 :
  Let([cs |-> Div(sc.f1, r0), sn |-> Div(sc.g1, r0),
       r |-> MulTimes(r0, factor, sc.count), hang |-> sc.hang], LAMBDA out :
      PlnRot2_Out(f, g, out)))

\* Aux_PlnRot2( f, g, cs, sn, r ): the outputs, or hang when a loop never exits
Aux_PlnRot2(f, g) ==
  IF IsZero(g) THEN [cs |-> unit, sn |-> 0, r |-> f, hang |-> FALSE]
  ELSE IF IsZero(f) THEN [cs |-> 0, sn |-> unit, r |-> g, hang |-> FALSE]
  ELSE IF Ge(Max(Abs(f), Abs(g)), maxValue)
  THEN Let(PlnRot2_Down(f, g, 0), LAMBDA sc : PlnRot2_Scaled(f, g, sc, maxValue))
  ELSE IF Le(Max(Abs(f), Abs(g)), minValue)
  THEN Let(PlnRot2_Up(f, g, 0), LAMBDA sc : PlnRot2_Scaled(f, g, sc, minValue))
  ELSE PlnRot2_Scaled(f, g, [f1 |-> f, g1 |-> g, count |-> 0, hang |-> FALSE], unit)

\* one plane rotation of Mat_RotSeq( Side::Right, Pivot::Var ) on the
\* columns col and col+1 of the m-row matrix A
RotCols(m, cj, sj, A, col) ==
  IF ~IsUnit(cj) \/ ~IsUnit(sj)
  THEN [i \in DOMAIN A |->
         IF i < m
         THEN Wr(Wr(A[i], col + 1,
                    Sub(Mul(cj, Rd(A[i], col + 1)), Mul(sj, Rd(A[i], col)))),
                 col, Add(Mul(sj, Rd(A[i], col + 1)), Mul(cj, Rd(A[i], col))))
         ELSE A[i]]
  ELSE A
RECURSIVE RotSeq_Fwd(_, _, _, _, _, _, _, _)
RotSeq_Fwd(j, m, nn, work, coff, soff, A, col0) ==
  IF j < nn - 1
  THEN Let(RotCols(m, Rd(work, coff + j), Rd(work, soff + j), A, col0 + j), LAMBDA A1 :
           RotSeq_Fwd(j + 1, m, nn, work, coff, soff, A1, col0))
  ELSE A
RECURSIVE RotSeq_Bwd(_, _, _, _, _, _, _, _)
RotSeq_Bwd(j, m, nn, work, coff, soff, A, col0) ==
  IF j >= 0
  THEN Let(RotCols(m, Rd(work, coff + j), Rd(work, soff + j), A, col0 + j), LAMBDA A1 :
           RotSeq_Bwd(j - 1, m, nn, work, coff, soff, A1, col0))
  ELSE A
\* variant: the rotations are applied first to last whatever the direction
Mat_RotSeq_AlwaysFwd(direct, m, nn, work, coff, soff, A, col0) ==
  IF m = 0 \/ nn = 0 THEN A
  ELSE RotSeq_Fwd(0, m, nn, work, coff, soff, A, col0)
\* Mat_RotSeq( Side::Right, Pivot::Var, direct, m, nn,
\*             work + coff, work + soff, Z_Blk(0,col0), Z_ld )
Mat_RotSeq(direct, m, nn, work, coff, soff, A, col0) ==
  IF m = 0 \/ nn = 0 THEN A
  ELSE IF direct = "Fwd" THEN RotSeq_Fwd(0, m, nn, work, coff, soff, A, col0)
  ELSE RotSeq_Bwd((nn - 1) - 1, m, nn, work, coff, soff, A, col0)

(***************************************************************************)
(* Bounds of the model and the inputs it draws.                            *)
(***************************************************************************)
\* largest order n of the tridiagonal pair
MaxN == 3
\* largest Config::maxIterationCount
MaxIter == 2
\* diagonal and off-diagonal entries of the input (raw scalars)
DVals == {-256, 0, 512}
EVals == {0, 64, 768}
\* Config::zeroTol: 1/8 (the format's own epsilon squares to zero)
ZeroTols == {32}
\* enum class Half, as far as the reductions accept it
Halves == {"Upper", "Lower"}

VARIABLES
  half,                            \* the Half handed to the two reductions
  n, maxIterationCount, zeroTol,   \* the order n and the solvers' Config
  d_in, e_in,                      \* the tridiagonal pair handed to both solvers
  call,                            \* the routine the driver is in
  pc,                              \* position inside Solve
  d, e, Z, work,                   \* Solve's buffers
  count, maxCount, k1, k, kend, k0, k1_prev, kend_prev, anorm, scale,
  ret,                             \* "none", "true", "false" or "BadArgument"
  sweeps, eig2s, rescls,           \* history: sweeps, 2x2 solves, Vec_Rescl calls
  op,                              \* history: the step of Solve taken last
  acc,                             \* history: indices accessed by the last step
  trace, stepno,                   \* history: the steps of Syt_EigVecQR::Solve
  prev,                            \* history: the cursors before the last step
  vecOut,                          \* history: what Syt_EigVecQR::Solve left
  touched,                         \* history: what the last reduction accessed
  lib                              \* the library routine called on its own, if any

cfg  == <<half, n, maxIterationCount, zeroTol, d_in, e_in>>
bufs == <<d, e, Z, work>>
curs == <<count, maxCount, k1, k, kend, k0, k1_prev, kend_prev, anorm, scale>>
hist == <<sweeps, eig2s, rescls>>
\* the variables of the eigensystem driver, and all variables
main == <<cfg, call, pc, bufs, curs, ret, hist, op, acc, trace, stepno, prev, vecOut, touched>>
vars == <<main, lib>>

\* the constants Solve derives from its Config
eps2   == Sqr(zeroTol)
safmin == minValue
safmax == Inv(safmin)
ssfmin == Div(Sqrt(safmin), eps2)
ssfmax == Div(Sqrt(safmax), 3 * unit)

\* Syt_EigVecQR_WorkSize( n )
Syt_EigVecQR_WorkSize(nn) == 2 * nn

NoPrev == [k1 |-> 0, k |-> 0, count |-> 0, eig2s |-> 0, e |-> <<>>]
NoAcc == [d |-> {}, e |-> {}, work |-> {}, zcols |-> {}]
Identity(nn) == [i \in 0 .. nn - 1 |-> [j \in 0 .. nn - 1 |-> IF i = j THEN unit ELSE 0]]
IsVec == call = "Syt_EigVecQR"

\* what a reduction accessed: cells of A, indices of d, e and tau, and the
\* helpers it called with their length argument
NoTouch == [A |-> {}, d |-> {}, e |-> {}, tau |-> {}, calls |-> {}]

\* the statements of Sym_Rdto_Syt after its quick return.  The loop bounds
\* are the Index casts of n-2 and n-1, negative when n = 0
Sym_Rdto_Syt_Body(hf, nn) ==
  IF hf = "Upper"
  THEN [A     |-> UNION {{<<i, i + 1>>, <<i + 1, i + 1>>} : i \in 0 .. nn - 2} \cup {<<0, 0>>},
        d     |-> {i + 1 : i \in 0 .. nn - 2} \cup {0},
        e     |-> 0 .. nn - 2,
        tau   |-> 0 .. nn - 2,
        calls |-> {<<"Rfl_VecGen", i + 1>> : i \in 0 .. nn - 2}]
  ELSE [A     |-> UNION {{<<i + 1, i>>, <<i, i>>} : i \in 0 .. nn - 2}
                  \cup {<<nn - 1, nn - 1>>},
        d     |-> (0 .. nn - 2) \cup {nn - 1},
        e     |-> 0 .. nn - 2,
        tau   |-> 0 .. nn - 2,
        calls |-> {<<"Rfl_VecGen", nn - (i + 1)>> : i \in 0 .. nn - 2}]
\* variant: Sym_Rdto_Syt without its quick return
Sym_Rdto_Syt_Unguarded(hf, nn) == Sym_Rdto_Syt_Body(hf, nn)
\* Sym_Rdto_Syt( half, n, A, A_ld, d, e, tau ): "Quick return if possible"
Sym_Rdto_Syt_Touched(hf, nn) == IF 0 = nn THEN NoTouch ELSE Sym_Rdto_Syt_Body(hf, nn)

\* the statements of Ort_From_Syt after its quick return
Ort_From_Syt_Body(hf, nn) ==
  IF hf = "Upper"
  THEN [A     |-> UNION {UNION {{<<i, j + 1>>, <<i, j>>} : i \in 0 .. j - 1} : j \in 0 .. nn - 2}
                  \cup {<<nn - 1, j>> : j \in 0 .. nn - 2}
                  \cup {<<i, nn - 1>> : i \in 0 .. nn - 2}
                  \cup {<<nn - 1, nn - 1>>},
        d     |-> {}, e |-> {}, tau |-> {},
        calls |-> {<<"Vec_Copy", j>> : j \in 0 .. nn - 2}
                  \cup {<<"Vec_Zero", nn - 1>>, <<"Ort_From_QL", nn - 1>>}]
  ELSE [A     |-> UNION {{<<0, j>>} \cup UNION {{<<i, j>>, <<i, j - 1>>} : i \in j + 1 .. nn - 1}
                         : j \in 1 .. nn - 1}
                  \cup {<<0, 0>>}
                  \cup {<<i, 0>> : i \in 1 .. nn - 1},
        d     |-> {}, e |-> {}, tau |-> {},
        calls |-> {<<"Vec_Zero", nn - 1>>, <<"Ort_From_QR", nn - 1>>}]
\* Ort_From_Syt( half, n, A, A_ld, tau, work ): "Quick return if possible"
Ort_From_Syt_Touched(hf, nn) == IF 0 = nn THEN NoTouch ELSE Ort_From_Syt_Body(hf, nn)

\* no library routine is being called on its own
NoCall == [routine |-> "none"]

\* what C3 compares: the cursor state, the pair (d, e) and the outcome
Snapshot(pc_, k1_, k_, kend_, k0_, count_, d_, e_, ret_) ==
  [pc |-> pc_, k1 |-> k1_, k |-> k_, kend |-> kend_, k0 |-> k0_,
   count |-> count_, d |-> d_, e |-> e_, ret |-> ret_]

Init ==
  /\ half \in Halves
  /\ n \in 0 .. MaxN
  /\ maxIterationCount \in 0 .. MaxIter
  /\ zeroTol \in ZeroTols
  /\ d_in \in [0 .. n - 1 -> DVals]
  /\ e_in \in [0 .. n - 2 -> EVals]
  /\ call = "Sym_Rdto_Syt"
  /\ pc = "entry"
  /\ touched = NoTouch
  /\ d = d_in /\ e = e_in
  /\ Z = Identity(n)
  /\ work = [i \in 0 .. Syt_EigVecQR_WorkSize(n) - 1 |-> undefined]
  /\ count = 0 /\ maxCount = 0 /\ k1 = 0 /\ k = 0 /\ kend = 0 /\ k0 = 0
  /\ k1_prev = 0 /\ kend_prev = 0 /\ anorm = 0 /\ scale = 0
  /\ ret = "none"
  /\ sweeps = 0 /\ eig2s = 0 /\ rescls = 0
  /\ op = "none"
  /\ acc = NoAcc
  /\ trace = <<>> /\ stepno = 0
  /\ prev = NoPrev
  /\ vecOut = [ret |-> "none", d |-> d_in, e |-> e_in]
  /\ lib = NoCall

\* bookkeeping shared by every step of Solve: the step is appended to the
\* trace while Syt_EigVecQR runs and counted while Syt_EigQR runs
Log(name, pc_, k1_, k_, kend_, k0_, count_, d_, e_, ret_) ==
  /\ op' = name
  /\ stepno' = stepno + 1
  /\ trace' = IF IsVec
              THEN Append(trace, Snapshot(pc_, k1_, k_, kend_, k0_, count_, d_, e_, ret_))
              ELSE trace
  /\ prev' = [k1 |-> k1, k |-> k, count |-> count, eig2s |-> eig2s, e |-> e]
  /\ UNCHANGED <<cfg, call, vecOut, touched, lib>>

\* the driver calls Sym_Rdto_Syt, then Ort_From_Syt, then the two solvers.
\* The values the reductions compute are not followed: d_in and e_in stand
\* for the tridiagonal pair Sym_Rdto_Syt leaves in d and e
Sym_Rdto_Syt ==
  /\ call = "Sym_Rdto_Syt"
  /\ touched' = Sym_Rdto_Syt_Touched(half, n)
  /\ call' = "Ort_From_Syt"
  /\ op' = "Sym_Rdto_Syt"
  /\ UNCHANGED <<cfg, pc, bufs, curs, ret, hist, acc, trace, stepno, prev, vecOut, lib>>

Ort_From_Syt ==
  /\ call = "Ort_From_Syt"
  /\ touched' = Ort_From_Syt_Touched(half, n)
  /\ call' = "Syt_EigVecQR"
  /\ op' = "Ort_From_Syt"
  /\ UNCHANGED <<cfg, pc, bufs, curs, ret, hist, acc, trace, stepno, prev, vecOut, lib>>

\* Solve, lines 49-62 (Syt_EigQR) / 59-75 (Syt_EigVecQR)
Enter ==
  /\ call \in {"Syt_EigVecQR", "Syt_EigQR"}
  /\ pc = "entry"
  /\ IF n = 0
     THEN /\ pc' = "done" /\ ret' = "true"
          /\ UNCHANGED <<count, maxCount, k1>>
     ELSE /\ pc' = "outer" /\ ret' = ret
          /\ count' = 0
          /\ maxCount' = n * maxIterationCount
          /\ k1' = 0
  /\ acc' = NoAcc
  /\ UNCHANGED <<bufs, k, kend, k0, k1_prev, kend_prev, anorm, scale, hist>>
  /\ Log("Enter", pc', k1', k, kend, k0, count', d, e, ret')

\* the forward scan for a negligible off-diagonal, from j
RECURSIVE SplitScan(_, _, _)
SplitScan(j, dd, ee) ==
  IF j < n - 1
  THEN IF IsZero(Abs(Rd(ee, j))) THEN [k0 |-> j, e |-> ee]
       ELSE IF Le(Abs(Rd(ee, j)),
                  Mul(Mul(zeroTol, Sqrt(Abs(Rd(dd, j)))), Sqrt(Abs(Rd(dd, j + 1)))))
       THEN [k0 |-> j, e |-> Wr(ee, j, 0)]
       ELSE SplitScan(j + 1, dd, ee)
  ELSE [k0 |-> j, e |-> ee]
\* the indices the scan from k1_ that stopped at k0_ has read
SplitScan_AccE(k1_, k0_) == {j \in k1_ .. k0_ : j < n - 1}
SplitScan_AccD(k1_, k0_, ee) ==
  UNION {{j, j + 1} : j \in {i \in SplitScan_AccE(k1_, k0_) : ~IsZero(Abs(Rd(ee, i)))}}

\* the head of the outer loop: e with e[k1-1] cleared, and the split found
OuterSplit == SplitScan(k1, d, IF k1 > 0 THEN Wr(e, k1 - 1, 0) ELSE e)
OuterSplit_AccE ==
  (IF k1 > 0 THEN {k1 - 1} ELSE {}) \cup SplitScan_AccE(k1, OuterSplit.k0)
OuterSplit_AccD ==
  SplitScan_AccD(k1, OuterSplit.k0, IF k1 > 0 THEN Wr(e, k1 - 1, 0) ELSE e)

\* while( count < maxCount ) fails, or k1 > n-1: "return true"
Outer_Return ==
  /\ pc = "outer"
  /\ ~(count < maxCount) \/ k1 > n - 1
  /\ pc' = "done" /\ ret' = "true"
  /\ acc' = NoAcc
  /\ UNCHANGED <<bufs, curs, hist>>
  /\ Log("Outer_Return", pc', k1, k, kend, k0, count, d, e, ret')

\* the norm of the block found by the split
OuterNorm == Syt_Norm_Max(OuterSplit.k0 - k1 + 1, d, OuterSplit.e, k1)

\* variant: the next block starts at the split itself
NextBlock_Stuck(k0_) == k0_
\* k1 = k0+1: the next block starts after the split
NextBlock(k0_) == k0_ + 1
\* variant: a block of one row is not skipped
Block_Skipped_NormOnly(k0_) == IsZero(OuterNorm)
\* if( kend == k ){ continue; }  and  if( IsZero( anorm ) ){ continue; }
Block_Skipped(k0_) == k0_ = k1 \/ IsZero(OuterNorm)
\* variant: the comparison of the two ends is turned around
Block_Reversed_Flipped(dd, lo, hi) == Lt(Abs(Rd(dd, lo)), Abs(Rd(dd, hi)))
\* if( Abs(d[kend]) < Abs(d[k]) ): the cursors k and kend are exchanged
Block_Reversed(dd, lo, hi) == Lt(Abs(Rd(dd, hi)), Abs(Rd(dd, lo)))

\* a block of one row, or of norm zero: "continue"
Outer_Skip ==
  /\ pc = "outer"
  /\ count < maxCount /\ ~(k1 > n - 1)
  /\ \E sp \in {OuterSplit} :
         /\ Block_Skipped(sp.k0)
         /\ e' = sp.e
         /\ k0' = sp.k0 /\ k' = k1 /\ k1_prev' = k1 /\ kend' = sp.k0
         /\ kend_prev' = sp.k0 /\ k1' = NextBlock(sp.k0)
         /\ IF sp.k0 = k1
            THEN /\ anorm' = anorm
                 /\ acc' = [NoAcc EXCEPT !.e = OuterSplit_AccE, !.d = OuterSplit_AccD]
            ELSE /\ anorm' = OuterNorm
                 /\ acc' = [NoAcc EXCEPT !.e = OuterSplit_AccE \cup (k1 .. sp.k0 - 1),
                                         !.d = OuterSplit_AccD \cup (k1 .. sp.k0)]
  /\ pc' = "outer"
  /\ UNCHANGED <<d, Z, work, count, maxCount, scale, ret, hist>>
  /\ Log("Outer_Skip", pc', k1', k', kend', k0', count, d, e', ret)

\* the block sp.k0 > k1 of norm an, scaled to sc: the two Vec_Rescl calls
\* and the choice between QL and QR
Outer_Scale(sp, an, sc, d1) ==
  /\ k0' = sp.k0 /\ k1_prev' = k1 /\ kend_prev' = sp.k0 /\ k1' = NextBlock(sp.k0)
  /\ anorm' = an /\ scale' = sc
  /\ acc' = [NoAcc EXCEPT !.e = OuterSplit_AccE \cup (k1 .. sp.k0 - 1),
                          !.d = OuterSplit_AccD \cup (k1 .. sp.k0)]
  /\ IF Vec_Rescl_BadArg(an, sc) # 0
     THEN /\ pc' = "done" /\ ret' = "BadArgument"
          /\ e' = sp.e /\ d' = d
          /\ k' = k1 /\ kend' = sp.k0
          /\ rescls' = rescls + 1
     ELSE /\ ret' = ret
          /\ d' = d1
          /\ e' = Vec_Rescl(an, sc, sp.k0 - k1, sp.e, k1)
          /\ k' = IF Block_Reversed(d1, k1, sp.k0) THEN sp.k0 ELSE k1
          /\ kend' = IF Block_Reversed(d1, k1, sp.k0) THEN k1 ELSE sp.k0
          /\ pc' = IF kend' >= k' THEN "ql" ELSE "qr"
          /\ rescls' = rescls + 2
Outer_Clamp(sp, an, sc) ==
  \E d1 \in {Vec_Rescl(an, sc, sp.k0 - k1 + 1, d, k1)} : Outer_Scale(sp, an, sc, d1)

\* a block of more than one row: scale it and choose between QL and QR
Outer_Block ==
  /\ pc = "outer"
  /\ count < maxCount /\ ~(k1 > n - 1)
  /\ ~Block_Skipped(OuterSplit.k0)
  /\ \E sp \in {OuterSplit} : \E an \in {OuterNorm} :
       \E sc \in {Clamp(an, ssfmin, ssfmax)} : Outer_Clamp(sp, an, sc)
  /\ UNCHANGED <<Z, work, count, maxCount, sweeps, eig2s>>
  /\ Log("Outer_Block", pc', k1', k', kend', k0', count, d', e', ret')

\* const T_Arr_work C = work;  const T_Arr_work S = work + n;
C_off == 0
\* variant: the sines start one entry too far
S_off_PastEnd == n + 1
S_off == n

\* the negligibility test of the inner scans on e[j], between d[i1] and d[i2]
Negligible(dd, ee, j, i1, i2) ==
  Le(Sqr(Rd(ee, j)), Add(Mul(eps2, Abs(Mul(Rd(dd, i1), Rd(dd, i2)))), safmin))

\* QL: "Look for a small subdiagonal element", the k0 it leaves
RECURSIVE QL_ScanFrom(_, _, _)
QL_ScanFrom(j, dd, ee) ==
  IF j <= kend - 1
  THEN IF Negligible(dd, ee, j, j, j + 1) THEN j ELSE QL_ScanFrom(j + 1, dd, ee)
  ELSE j
QL_k0 == IF k # kend THEN QL_ScanFrom(k, d, e) ELSE kend
QL_ScanAccE == IF k # kend THEN {j \in k .. QL_k0 : j <= kend - 1} ELSE {}
QL_ScanAccD == UNION {{j, j + 1} : j \in QL_ScanAccE}
\* if( k0 < kend ){ e[k0] = zero; }
QL_e0 == IF QL_k0 < kend THEN Wr(e, QL_k0, 0) ELSE e
QL_e0AccE == IF QL_k0 < kend THEN {QL_k0} ELSE {}

\* QR: "Look for a small superdiagonal element", the k0 it leaves
RECURSIVE QR_ScanFrom(_, _, _)
QR_ScanFrom(j, dd, ee) ==
  IF j >= kend + 1
  THEN IF Negligible(dd, ee, j - 1, j, j - 1) THEN j ELSE QR_ScanFrom(j - 1, dd, ee)
  ELSE j
QR_k0 == IF k # kend THEN QR_ScanFrom(k, d, e) ELSE kend
QR_ScanAccE == IF k # kend THEN {j - 1 : j \in {i \in QR_k0 .. k : i >= kend + 1}} ELSE {}
QR_ScanAccD == UNION {{j, j + 1} : j \in QR_ScanAccE}
\* if( k0 > kend ){ e[k0-1] = zero; }
QR_e0 == IF QR_k0 > kend THEN Wr(e, QR_k0 - 1, 0) ELSE e
QR_e0AccE == IF QR_k0 > kend THEN {QR_k0 - 1} ELSE {}

\* variant: the budget test before a sweep is left out
Sweep_Allowed_Unchecked == TRUE
\* if( count == maxCount ){ return false; }  guards every sweep
Sweep_Allowed == count # maxCount

\* where the loop of the block goes once the cursor k has moved
AfterQL(k_) == IF k_ <= kend THEN "ql" ELSE "unscale"
AfterQR(k_) == IF k_ >= kend THEN "qr" ELSE "unscale"

\* QL, k0 == k: "Eigenvalue found."
QL_Deflate ==
  /\ pc = "ql" /\ k <= kend
  /\ QL_k0 = k
  /\ k0' = QL_k0 /\ e' = QL_e0
  /\ k' = k + 1
  /\ pc' = AfterQL(k')
  /\ acc' = [NoAcc EXCEPT !.e = QL_ScanAccE \cup QL_e0AccE, !.d = QL_ScanAccD]
  /\ UNCHANGED <<d, Z, work, count, maxCount, k1, kend, k1_prev, kend_prev, anorm, scale,
                 ret, hist>>
  /\ Log("QL_Deflate", pc', k1, k', kend, k0', count, d, e', ret)

\* the closed-form solve of the 2x2 block in rows lo, lo+1: Aux_EigVec2 in
\* Syt_EigVecQR, Aux_Eig2 in Syt_EigQR; rt1 and rt2 go to d[lo] and d[lo+1],
\* cs1 and sn1 to C[at] and S[at]
Eig2_Call(lo) ==
  IF IsVec THEN Aux_EigVec2(Rd(d, lo), Rd(e, lo), Rd(d, lo + 1))
  ELSE Aux_Eig2(Rd(d, lo), Rd(e, lo), Rd(d, lo + 1))
\* variant: only rt1 is stored
Eig2_d_FirstOnly(lo, rt) == Wr(d, lo, rt[1])
Eig2_d(lo, rt) == Wr(Wr(d, lo, rt[1]), lo + 1, rt[2])
Eig2_work(at, rt) ==
  IF IsVec THEN Wr(Wr(work, C_off + at, rt[3]), S_off + at, rt[4]) ELSE work
Eig2_workAcc(at) == IF IsVec THEN {C_off + at, S_off + at} ELSE {}
\* the columns of Z and the entries of C and S a Mat_RotSeq call of nn
\* columns from column col0, with rotations from index at, goes through
RotSeq_ZCols(nn, col0) ==
  IF n = 0 \/ nn = 0 THEN {} ELSE UNION {{col0 + j, col0 + j + 1} : j \in 0 .. nn - 2}
RotSeq_WorkAcc(nn, at) ==
  IF n = 0 \/ nn = 0 THEN {}
  ELSE UNION {{C_off + at + j, S_off + at + j} : j \in 0 .. nn - 2}

\* QL 2x2: the stores of rt into d and work, and the rotation of Z
QL_Eig2_Store(rt) ==
  /\ d' = Eig2_d(k, rt)
  /\ work' = Eig2_work(k, rt)
  /\ Z' = IF IsVec THEN Mat_RotSeq("Bwd", n, 2, work', C_off + k, S_off + k, Z, k) ELSE Z

\* QL, k0 == k+1: the remaining block is 2 by 2
QL_Eig2 ==
  /\ pc = "ql" /\ k <= kend
  /\ QL_k0 # k /\ QL_k0 = k + 1
  /\ k0' = QL_k0
  /\ \E rt \in {Eig2_Call(k)} : QL_Eig2_Store(rt)
  /\ e' = Wr(QL_e0, k, 0)
  /\ k' = k + 2
  /\ pc' = AfterQL(k')
  /\ eig2s' = eig2s + 1
  /\ acc' = [d |-> QL_ScanAccD \cup {k, k + 1},
             e |-> QL_ScanAccE \cup QL_e0AccE \cup {k},
             work |-> Eig2_workAcc(k) \cup (IF IsVec THEN RotSeq_WorkAcc(2, k) ELSE {}),
             zcols |-> IF IsVec THEN RotSeq_ZCols(2, k) ELSE {}]
  /\ UNCHANGED <<count, maxCount, k1, kend, k1_prev, kend_prev, anorm, scale, ret,
                 sweeps, rescls>>
  /\ Log("QL_Eig2", pc', k1, k', kend, k0', count, d', e', ret)

\* QL, a sweep is needed and count == maxCount: "Failed to converge."
QL_Fail ==
  /\ pc = "ql" /\ k <= kend
  /\ QL_k0 # k /\ QL_k0 # k + 1
  /\ ~Sweep_Allowed
  /\ k0' = QL_k0 /\ e' = QL_e0
  /\ pc' = "done" /\ ret' = "false"
  /\ acc' = [NoAcc EXCEPT !.e = QL_ScanAccE \cup QL_e0AccE, !.d = QL_ScanAccD]
  /\ UNCHANGED <<d, Z, work, count, maxCount, k1, k, kend, k1_prev, kend_prev, anorm,
                 scale, hist>>
  /\ Log("QL_Fail", pc', k1, k, kend, k0', count, d, e', ret')

\* one pass of the QL rotation loop at row i, given b = c*e[i] and the
\* rotation rot generated from (g, s*e[i])
QL_Rotate(i, m, st, b, rot) ==
  Let(Sub(Rd(st.d, i + 1), st.p), LAMBDA g1 :
  Let(Add(Mul(Sub(Rd(st.d, i), g1), rot.sn), Mul(Mul(2 * unit, rot.cs), b)), LAMBDA r1 :
      [d    |-> Wr(st.d, i + 1, Add(g1, Mul(rot.sn, r1))),
       e    |-> IF i # m - 1 THEN Wr(st.e, i + 1, rot.r) ELSE st.e,
       work |-> IF IsVec
                THEN Wr(Wr(st.work, C_off + i, rot.cs), S_off + i, Neg(rot.sn))
                ELSE st.work,
       g    |-> Sub(Mul(rot.cs, r1), b),
       c    |-> rot.cs,
       s    |-> rot.sn,
       p    |-> Mul(rot.sn, r1),
       hang |-> st.hang \/ rot.hang]))
\* the rotation chain of the QL sweep, from row i down to row k
RECURSIVE QL_Chain(_, _, _)
QL_Chain(i, m, st) ==
  IF i >= k
  THEN Let(Mul(st.s, Rd(st.e, i)), LAMBDA f :
       Let(Mul(st.c, Rd(st.e, i)), LAMBDA b :
       Let(Aux_PlnRot2(st.g, f), LAMBDA rot :
       Let(QL_Rotate(i, m, st, b, rot), LAMBDA st1 : QL_Chain(i - 1, m, st1)))))
  ELSE st
\* d[k] -= p; e[k] = g;
QL_SweepEnd(st) ==
  [st EXCEPT !.d = Wr(st.d, k, Sub(Rd(st.d, k), st.p)), !.e = Wr(st.e, k, st.g)]
\* "Form shift.": g from f = ( d[k+1] - d[k] )/( 2*e[k] )
QL_Shift(m, dd, ee, f) ==
  Add(Sub(Rd(dd, m), Rd(dd, k)), Div(Rd(ee, k), Add(f, CopySign(Hypot(f, unit), f))))
\* the sweep of the block k..m on the pair (dd, ee)
QL_SweepOf(m, dd, ee) ==
  Let(Div(Sub(Rd(dd, k + 1), Rd(dd, k)), Mul(2 * unit, Rd(ee, k))), LAMBDA f :
  Let([d |-> dd, e |-> ee, work |-> work, g |-> QL_Shift(m, dd, ee, f),
       c |-> unit, s |-> unit, p |-> 0, hang |-> FALSE], LAMBDA st0 :
  Let(QL_Chain(m - 1, m, st0), LAMBDA st : QL_SweepEnd(st))))
QL_SweepAccD(m) == {k + 1, k, m} \cup UNION {{i, i + 1} : i \in k .. m - 1}
QL_SweepAccE(m) == {k} \cup (k .. m - 1) \cup {i + 1 : i \in {j \in k .. m - 1 : j # m - 1}}
SweepWorkAcc(lo, hi) == IF IsVec THEN UNION {{C_off + i, S_off + i} : i \in lo .. hi} ELSE {}

\* QL sweep: the stores of the sweep sw of the block k..m, and the
\* rotation of Z by the nn - 1 rotations it recorded
QL_Sweep_Store(m, nn, sw) ==
  /\ ~sw.hang
  /\ d' = sw.d /\ e' = sw.e /\ work' = sw.work
  /\ Z' = IF IsVec
          THEN Mat_RotSeq("Bwd", n, nn, sw.work, C_off + k, S_off + k, Z, k)
          ELSE Z
  /\ acc' = [d |-> QL_ScanAccD \cup QL_SweepAccD(m),
             e |-> QL_ScanAccE \cup QL_e0AccE \cup QL_SweepAccE(m),
             work |-> SweepWorkAcc(k, m - 1)
                      \cup (IF IsVec THEN RotSeq_WorkAcc(nn, k) ELSE {}),
             zcols |-> IF IsVec THEN RotSeq_ZCols(nn, k) ELSE {}]

\* QL: one implicit-shift sweep
QL_Sweep ==
  /\ pc = "ql" /\ k <= kend
  /\ QL_k0 # k /\ QL_k0 # k + 1
  /\ Sweep_Allowed
  /\ k0' = QL_k0
  /\ count' = count + 1
  /\ \E sw \in {QL_SweepOf(QL_k0, d, QL_e0)} : QL_Sweep_Store(QL_k0, (QL_k0 - k) + 1, sw)
  /\ sweeps' = sweeps + 1
  /\ pc' = "ql"
  /\ UNCHANGED <<maxCount, k1, k, kend, k1_prev, kend_prev, anorm, scale, ret, eig2s, rescls>>
  /\ Log("QL_Sweep", pc', k1, k, kend, k0', count', d', e', ret)

\* QR, k0 == k: "Eigenvalue found."
QR_Deflate ==
  /\ pc = "qr" /\ k >= kend
  /\ QR_k0 = k
  /\ k0' = QR_k0 /\ e' = QR_e0
  /\ k' = k - 1
  /\ pc' = AfterQR(k')
  /\ acc' = [NoAcc EXCEPT !.e = QR_ScanAccE \cup QR_e0AccE, !.d = QR_ScanAccD]
  /\ UNCHANGED <<d, Z, work, count, maxCount, k1, kend, k1_prev, kend_prev, anorm, scale,
                 ret, hist>>
  /\ Log("QR_Deflate", pc', k1, k', kend, k0', count, d, e', ret)

\* QR 2x2: the stores of rt into d and work, and the rotation of Z
QR_Eig2_Store(rt) ==
  /\ d' = Eig2_d(k - 1, rt)
  /\ work' = Eig2_work(k, rt)
  /\ Z' = IF IsVec THEN Mat_RotSeq("Fwd", n, 2, work', C_off + k, S_off + k, Z, k - 1) ELSE Z

\* QR, k0 == k-1: the remaining block is 2 by 2
QR_Eig2 ==
  /\ pc = "qr" /\ k >= kend
  /\ QR_k0 # k /\ QR_k0 = k - 1
  /\ k0' = QR_k0
  /\ \E rt \in {Eig2_Call(k - 1)} : QR_Eig2_Store(rt)
  /\ e' = Wr(QR_e0, k - 1, 0)
  /\ k' = k - 2
  /\ pc' = AfterQR(k')
  /\ eig2s' = eig2s + 1
  /\ acc' = [d |-> QR_ScanAccD \cup {k - 1, k},
             e |-> QR_ScanAccE \cup QR_e0AccE \cup {k - 1},
             work |-> Eig2_workAcc(k) \cup (IF IsVec THEN RotSeq_WorkAcc(2, k) ELSE {}),
             zcols |-> IF IsVec THEN RotSeq_ZCols(2, k - 1) ELSE {}]
  /\ UNCHANGED <<count, maxCount, k1, kend, k1_prev, kend_prev, anorm, scale, ret,
                 sweeps, rescls>>
  /\ Log("QR_Eig2", pc', k1, k', kend, k0', count, d', e', ret)

\* QR, a sweep is needed and count == maxCount: "Failed to converge."
QR_Fail ==
  /\ pc = "qr" /\ k >= kend
  /\ QR_k0 # k /\ QR_k0 # k - 1
  /\ ~Sweep_Allowed
  /\ k0' = QR_k0 /\ e' = QR_e0
  /\ pc' = "done" /\ ret' = "false"
  /\ acc' = [NoAcc EXCEPT !.e = QR_ScanAccE \cup QR_e0AccE, !.d = QR_ScanAccD]
  /\ UNCHANGED <<d, Z, work, count, maxCount, k1, k, kend, k1_prev, kend_prev, anorm,
                 scale, hist>>
  /\ Log("QR_Fail", pc', k1, k, kend, k0', count, d, e', ret')

\* one pass of the QR rotation loop at row i, given b = c*e[i] and the
\* rotation rot generated from (g, s*e[i])
QR_Rotate(i, m, st, b, rot) ==
  Let(Sub(Rd(st.d, i), st.p), LAMBDA g1 :
  Let(Add(Mul(Sub(Rd(st.d, i + 1), g1), rot.sn), Mul(Mul(2 * unit, rot.cs), b)), LAMBDA r1 :
      [d    |-> Wr(st.d, i, Add(g1, Mul(rot.sn, r1))),
       e    |-> IF i # m THEN Wr(st.e, i - 1, rot.r) ELSE st.e,
       work |-> IF IsVec
                THEN Wr(Wr(st.work, C_off + i, rot.cs), S_off + i, rot.sn)
                ELSE st.work,
       g    |-> Sub(Mul(rot.cs, r1), b),
       c    |-> rot.cs,
       s    |-> rot.sn,
       p    |-> Mul(rot.sn, r1),
       hang |-> st.hang \/ rot.hang]))
\* the rotation chain of the QR sweep, from row i up to row k-1
RECURSIVE QR_Chain(_, _, _)
QR_Chain(i, m, st) ==
  IF i <= k - 1
  THEN Let(Mul(st.s, Rd(st.e, i)), LAMBDA f :
       Let(Mul(st.c, Rd(st.e, i)), LAMBDA b :
       Let(Aux_PlnRot2(st.g, f), LAMBDA rot :
       Let(QR_Rotate(i, m, st, b, rot), LAMBDA st1 : QR_Chain(i + 1, m, st1)))))
  ELSE st
\* d[k] -= p; e[k-1] = g;
QR_SweepEnd(st) ==
  [st EXCEPT !.d = Wr(st.d, k, Sub(Rd(st.d, k), st.p)), !.e = Wr(st.e, k - 1, st.g)]
\* "Form shift.": g from f = ( d[k-1] - d[k] )/( 2*e[k-1] )
QR_Shift(m, dd, ee, f) ==
  Add(Sub(Rd(dd, m), Rd(dd, k)), Div(Rd(ee, k - 1), Add(f, CopySign(Hypot(f, unit), f))))
\* the sweep of the block m..k on the pair (dd, ee)
QR_SweepOf(m, dd, ee) ==
  Let(Div(Sub(Rd(dd, k - 1), Rd(dd, k)), Mul(2 * unit, Rd(ee, k - 1))), LAMBDA f :
  Let([d |-> dd, e |-> ee, work |-> work, g |-> QR_Shift(m, dd, ee, f),
       c |-> unit, s |-> unit, p |-> 0, hang |-> FALSE], LAMBDA st0 :
  Let(QR_Chain(m, m, st0), LAMBDA st : QR_SweepEnd(st))))
QR_SweepAccD(m) == {k - 1, k, m} \cup UNION {{i, i + 1} : i \in m .. k - 1}
QR_SweepAccE(m) == {k - 1} \cup (m .. k - 1) \cup {i - 1 : i \in {j \in m .. k - 1 : j # m}}

\* QR sweep: the stores of the sweep sw of the block m..k, and the
\* rotation of Z by the nn - 1 rotations it recorded
QR_Sweep_Store(m, nn, sw) ==
  /\ ~sw.hang
  /\ d' = sw.d /\ e' = sw.e /\ work' = sw.work
  /\ Z' = IF IsVec
          THEN Mat_RotSeq("Fwd", n, nn, sw.work, C_off + m, S_off + m, Z, m)
          ELSE Z
  /\ acc' = [d |-> QR_ScanAccD \cup QR_SweepAccD(m),
             e |-> QR_ScanAccE \cup QR_e0AccE \cup QR_SweepAccE(m),
             work |-> SweepWorkAcc(m, k - 1)
                      \cup (IF IsVec THEN RotSeq_WorkAcc(nn, m) ELSE {}),
             zcols |-> IF IsVec THEN RotSeq_ZCols(nn, m) ELSE {}]

\* QR: one implicit-shift sweep
QR_Sweep ==
  /\ pc = "qr" /\ k >= kend
  /\ QR_k0 # k /\ QR_k0 # k - 1
  /\ Sweep_Allowed
  /\ k0' = QR_k0
  /\ count' = count + 1
  /\ \E sw \in {QR_SweepOf(QR_k0, d, QR_e0)} : QR_Sweep_Store(QR_k0, (k - QR_k0) + 1, sw)
  /\ sweeps' = sweeps + 1
  /\ pc' = "qr"
  /\ UNCHANGED <<maxCount, k1, k, kend, k1_prev, kend_prev, anorm, scale, ret, eig2s, rescls>>
  /\ Log("QR_Sweep", pc', k1, k, kend, k0', count', d', e', ret)

\* variant: the length is taken from the cursors k and kend
Unscale_Count_Cursors == (kend + 1) - (k + 1) + 1
\* the length argument of the Vec_Rescl call of line 279 / 313
Unscale_Count == (kend_prev + 1) - (k1_prev + 1) + 1

\* line 279 / 313: undo the scaling of the block once its loop has ended
Unscale ==
  /\ pc = "unscale"
  /\ \E bad \in {Vec_Rescl_BadArg(scale, anorm)} :
     \E cnt \in {Unscale_Count} :
         /\ rescls' = rescls + 1
         /\ acc' = [NoAcc EXCEPT !.d = {i \in k1_prev .. k1_prev + cnt - 1 : TRUE}]
         /\ IF bad # 0
            THEN pc' = "done" /\ ret' = "BadArgument" /\ d' = d
            ELSE pc' = "outer" /\ ret' = ret /\ d' = Vec_Rescl(scale, anorm, cnt, d, k1_prev)
  /\ UNCHANGED <<e, Z, work, curs, sweeps, eig2s>>
  /\ Log("Unscale", pc', k1, k, kend, k0, count, d', e, ret')

\* the driver: Syt_EigVecQR::Solve has returned, Syt_EigQR::Solve is called
\* on the copy d1, e1 of the same pair.  The second solver is called whatever
\* the first returned, so that the two runs can be compared on every input
Call_Syt_EigQR ==
  /\ call = "Syt_EigVecQR" /\ pc = "done"
  /\ call' = "Syt_EigQR"
  /\ pc' = "entry"
  /\ vecOut' = [ret |-> ret, d |-> d, e |-> e]
  /\ d' = d_in /\ e' = e_in
  /\ count' = 0 /\ maxCount' = 0 /\ k1' = 0 /\ k' = 0 /\ kend' = 0 /\ k0' = 0
  /\ k1_prev' = 0 /\ kend_prev' = 0 /\ anorm' = 0 /\ scale' = 0
  /\ ret' = "none"
  /\ sweeps' = 0 /\ eig2s' = 0 /\ rescls' = 0
  /\ op' = "none" /\ acc' = NoAcc /\ stepno' = 0 /\ prev' = NoPrev
  /\ UNCHANGED <<cfg, Z, work, trace, touched, lib>>

Next ==
  \/ Sym_Rdto_Syt
  \/ Ort_From_Syt
  \/ Enter
  \/ Outer_Return
  \/ Outer_Skip
  \/ Outer_Block
  \/ QL_Deflate
  \/ QL_Eig2
  \/ QL_Fail
  \/ QL_Sweep
  \/ QR_Deflate
  \/ QR_Eig2
  \/ QR_Fail
  \/ QR_Sweep
  \/ Unscale
  \/ Call_Syt_EigQR

Spec == Init /\ [][Next]_vars

\* the driver is one sequential thread: a step that can be taken is taken
FairSpec == Spec /\ WF_vars(Next)

(***************************************************************************)
(* Library routines called on their own.  While one of them is followed    *)
(* the eigensystem driver is not running: its variables rest at the values *)
(* they have for n = 0 before the first call.                              *)
(***************************************************************************)
LibIdle ==
  /\ half = "Lower" /\ n = 0 /\ maxIterationCount = 0 /\ zeroTol = 32
  /\ d_in = <<>> /\ e_in = <<>>
  /\ call = "Sym_Rdto_Syt" /\ pc = "entry"
  /\ touched = NoTouch
  /\ d = <<>> /\ e = <<>> /\ Z = <<>> /\ work = <<>>
  /\ count = 0 /\ maxCount = 0 /\ k1 = 0 /\ k = 0 /\ kend = 0 /\ k0 = 0
  /\ k1_prev = 0 /\ kend_prev = 0 /\ anorm = 0 /\ scale = 0
  /\ ret = "none"
  /\ sweeps = 0 /\ eig2s = 0 /\ rescls = 0
  /\ op = "none"
  /\ acc = NoAcc
  /\ trace = <<>> /\ stepno = 0
  /\ prev = NoPrev
  /\ vecOut = [ret |-> "none", d |-> <<>>, e |-> <<>>]

(***************************************************************************)
(* Argument validation of the triangular-only routines.  Each routine is   *)
(* followed from its entry to the first statement of its body: the         *)
(* outcome is the BadArgument thrown (with its arg field), a return        *)
(* before the body (with the value returned, if any), or "body".  No       *)
(* buffer is written before the body.                                      *)
(***************************************************************************)
\* enum class Half
Half3 == {"Upper", "Lower", "Both"}
\* enum class Side
Sides == {"Left", "Right"}
\* largest m, n and leading dimension handed to a routine
MaxDim == 1
MaxLd == 2
TriRoutines ==
  {"Sym_Norm", "Sym_Rank2Upd", "Sym_Rank2kUpd", "Tri_VecMul", "Tri_MatMul", "Tri_Solv_Vec"}

Thrown(index) == [result |-> "BadArgument", arg |-> index, value |-> 0]
Returns(v) == [result |-> "return", arg |-> 0, value |-> v]
Body == [result |-> "body", arg |-> 0, value |-> 0]
NoOutcome == [result |-> "none", arg |-> 0, value |-> 0]

\* Sym_Norm( normType, half, n, A_, A_ld, work )
Sym_Norm_Entry(hf, nn) ==
  IF 0 = nn THEN Returns(0)
  ELSE IF hf = "Both" THEN Returns(undefined)
  ELSE Body
\* Sym_Rank2Upd( half, n, alpha, x_, x_s, y_, y_s, A_, A_ld )
Sym_Rank2Upd_Entry(hf, alpha) ==
  IF hf = "Both" THEN Thrown(1)
  ELSE IF IsZero(alpha) THEN Returns(0)
  ELSE Body
\* Sym_Rank2kUpd( half, AB_trnsp, n, k, alpha, A_, A_ld, B_, B_ld, beta, C_, C_ld )
Sym_Rank2kUpd_Entry(hf, nn) ==
  IF hf = "Both" THEN Thrown(1)
  ELSE IF 0 = nn THEN Returns(0)
  ELSE Body
\* Tri_VecMul( half, A_trnsp, diag, n, A_, A_ld, x_, x_s )
Tri_VecMul_Entry(hf, nn, A_ld) ==
  IF hf = "Both" THEN Thrown(1)
  ELSE IF A_ld < (IF 1 > nn THEN 1 ELSE nn) THEN Thrown(6)
  ELSE IF 0 = nn THEN Returns(0)
  ELSE Body
\* Tri_MatMul( side, half, A_trnsp, diag, m, n, alpha, A_, A_ld, B_, B_ld )
Tri_MatMul_Entry(side, hf, mm, nn, A_ld, B_ld) ==
  LET A_nrow == IF side = "Left" THEN mm ELSE nn
  IN  IF hf = "Both" THEN Thrown(2)
      ELSE IF A_ld < (IF 1 > A_nrow THEN 1 ELSE A_nrow) THEN Thrown(9)
      ELSE IF B_ld < (IF 1 > mm THEN 1 ELSE mm) THEN Thrown(11)
      ELSE IF 0 = mm \/ 0 = nn THEN Returns(0)
      ELSE Body
\* Tri_Solv_Vec( half, A_trnsp, diag, n, A_, A_ld, x_, x_s )
Tri_Solv_Vec_Entry(hf, nn, A_ld) ==
  IF hf = "Both" THEN Thrown(1)
  ELSE IF A_ld < (IF 1 > nn THEN 1 ELSE nn) THEN Thrown(6)
  ELSE Body

\* the 1-based position of the parameter half in each signature
HalfPosition(routine) == IF routine \in {"Sym_Norm", "Tri_MatMul"} THEN 2 ELSE 1

HalfInit ==
  /\ LibIdle
  /\ lib \in [routine : TriRoutines, half : Half3, side : Sides,
              m : 0 .. MaxDim, n : 0 .. MaxDim, alpha : {0, unit},
              A_ld : 0 .. MaxLd, B_ld : 0 .. MaxLd,
              pc : {"call"}, out : {NoOutcome}]

\* the call of lib.routine ends with the outcome out
HalfCall(routine, out) ==
  /\ lib.routine = routine /\ lib.pc = "call"
  /\ lib' = [lib EXCEPT !.pc = "done", !.out = out]
  /\ UNCHANGED main

Call_Sym_Norm == HalfCall("Sym_Norm", Sym_Norm_Entry(lib.half, lib.n))
Call_Sym_Rank2Upd == HalfCall("Sym_Rank2Upd", Sym_Rank2Upd_Entry(lib.half, lib.alpha))
Call_Sym_Rank2kUpd == HalfCall("Sym_Rank2kUpd", Sym_Rank2kUpd_Entry(lib.half, lib.n))
Call_Tri_VecMul == HalfCall("Tri_VecMul", Tri_VecMul_Entry(lib.half, lib.n, lib.A_ld))
Call_Tri_MatMul ==
  HalfCall("Tri_MatMul",
           Tri_MatMul_Entry(lib.side, lib.half, lib.m, lib.n, lib.A_ld, lib.B_ld))
Call_Tri_Solv_Vec == HalfCall("Tri_Solv_Vec", Tri_Solv_Vec_Entry(lib.half, lib.n, lib.A_ld))

HalfNext ==
  \/ Call_Sym_Norm
  \/ Call_Sym_Rank2Upd
  \/ Call_Sym_Rank2kUpd
  \/ Call_Tri_VecMul
  \/ Call_Tri_MatMul
  \/ Call_Tri_Solv_Vec

HalfSpec == HalfInit /\ [][HalfNext]_vars


(***************************************************************************)
(* Vec_Rescl called on its own, with arguments that include zero, NaN and  *)
(* the infinities.                                                         *)
(***************************************************************************)
\* largest length of the vector x
MaxVec == 2
ResclVals == {undefined, 0, 1, unit, -2 * unit, infinity}
XVals == {unit, -3 * unit}

\* variant: the quick return for n = 0 comes before the argument validation
Vec_Rescl_Call_QuickFirst(cfrom, cto, cnt, x) ==
  IF cnt = 0 THEN [out |-> Returns(0), x |-> x]
  ELSE IF Vec_Rescl_BadArg(cfrom, cto) # 0
  THEN [out |-> Thrown(Vec_Rescl_BadArg(cfrom, cto)), x |-> x]
  ELSE [out |-> Returns(0), x |-> Vec_Rescl(cfrom, cto, cnt, x, 0)]
\* Vec_Rescl( cfrom, cto, cnt, x, 1 ): the exception thrown or the return,
\* and the vector x afterwards
Vec_Rescl_Call(cfrom, cto, cnt, x) ==
  IF Vec_Rescl_BadArg(cfrom, cto) # 0
  THEN [out |-> Thrown(Vec_Rescl_BadArg(cfrom, cto)), x |-> x]
  ELSE [out |-> Returns(0), x |-> Vec_Rescl(cfrom, cto, cnt, x, 0)]

ResclInit ==
  /\ LibIdle
  /\ \E nn \in 0 .. MaxVec, c \in ResclVals, t \in ResclVals :
       \E x \in [0 .. nn - 1 -> XVals] :
         lib = [routine |-> "Vec_Rescl", cfrom |-> c, cto |-> t, n |-> nn,
                x0 |-> x, x |-> x, pc |-> "call", out |-> NoOutcome]

ResclCall(result) ==
  /\ lib.routine = "Vec_Rescl" /\ lib.pc = "call"
  /\ \E r \in {Vec_Rescl_Call(lib.cfrom, lib.cto, lib.n, lib.x)} :
       /\ r.out.result = result
       /\ lib' = [lib EXCEPT !.pc = "done", !.out = r.out, !.x = r.x]
  /\ UNCHANGED main

Vec_Rescl_Throws == ResclCall("BadArgument")
Vec_Rescl_Returns == ResclCall("return")

ResclNext ==
  \/ Vec_Rescl_Throws
  \/ Vec_Rescl_Returns

ResclSpec == ResclInit /\ [][ResclNext]_vars


(***************************************************************************)
(* The scaling loop of Vec_Rescl over a floating-point scalar.  A scalar   *)
(* is a signed power of two [sgn, ex]: sgn = 0 is zero, ex = MaxExp + 1 is *)
(* an infinity, sgn = 2 is NaN.  Exponents MinExp .. MaxExp are the normal *)
(* numbers, the SubBits exponents below MinExp the subnormal ones; a       *)
(* result below them is zero and one above MaxExp an infinity.             *)
(***************************************************************************)
MaxExp == 3
SubBits == 1
MinExp == 1 - MaxExp
DenExp == MinExp - SubBits
ExpZero == [sgn |-> 0, ex |-> 0]
ExpNaN == [sgn |-> 2, ex |-> 0]
ExpInf(sg) == [sgn |-> sg, ex |-> MaxExp + 1]
Pow2(sg, ex) ==
  IF ex > MaxExp THEN ExpInf(sg)
  ELSE IF ex < DenExp THEN ExpZero
  ELSE [sgn |-> sg, ex |-> ex]
ExpIsUndefined(a) == a.sgn = 2
ExpIsInf(a) == a.sgn # 2 /\ a.ex = MaxExp + 1
ExpIsZero(a) == a.sgn = 0
ExpIsUnit(a) == a = [sgn |-> 1, ex |-> 0]
ExpEq(a, b) == ~ExpIsUndefined(a) /\ ~ExpIsUndefined(b) /\ a = b
ExpAbs(a) == IF a.sgn = -1 THEN [a EXCEPT !.sgn = 1] ELSE a
\* a > b for a, b >= 0
ExpGt(a, b) ==
  /\ ~ExpIsUndefined(a) /\ ~ExpIsUndefined(b)
  /\ ~ExpIsZero(a)
  /\ ExpIsZero(b) \/ a.ex > b.ex
ExpMul(a, b) ==
  IF ExpIsUndefined(a) \/ ExpIsUndefined(b) THEN ExpNaN
  ELSE IF ExpIsZero(a) \/ ExpIsZero(b)
       THEN (IF ExpIsInf(a) \/ ExpIsInf(b) THEN ExpNaN ELSE ExpZero)
  ELSE IF ExpIsInf(a) \/ ExpIsInf(b) THEN ExpInf(a.sgn * b.sgn)
  ELSE Pow2(a.sgn * b.sgn, a.ex + b.ex)
ExpDiv(a, b) ==
  IF ExpIsUndefined(a) \/ ExpIsUndefined(b) THEN ExpNaN
  ELSE IF ExpIsInf(a) THEN (IF ExpIsInf(b) THEN ExpNaN
                            ELSE ExpInf(IF b.sgn = -1 THEN -a.sgn ELSE a.sgn))
  ELSE IF ExpIsZero(b) THEN (IF ExpIsZero(a) THEN ExpNaN ELSE ExpInf(a.sgn))
  ELSE IF ExpIsZero(a) \/ ExpIsInf(b) THEN ExpZero
  ELSE Pow2(a.sgn * b.sgn, a.ex - b.ex)

\* smlnum = minValue< T_Scalar >, bignum = Inv( smlnum )
smlnum == [sgn |-> 1, ex |-> MinExp]
bignum == ExpDiv([sgn |-> 1, ex |-> 0], smlnum)

\* Vec_Scale( cnt, alpha, x, 1 ) over this scalar
ExpVec_Scale(cnt, alpha, x) ==
  IF ExpIsZero(alpha) THEN [i \in DOMAIN x |-> IF i < cnt THEN ExpZero ELSE x[i]]
  ELSE IF ~ExpIsUnit(alpha) THEN [i \in DOMAIN x |-> IF i < cnt THEN ExpMul(x[i], alpha) ELSE x[i]]
  ELSE x

\* variant: the branch that divides ctoc by bignum scales x by smlnum
Rescl_Step_WrongFactor(cfromc, ctoc) ==
  LET cfrom1 == ExpMul(cfromc, smlnum)
      cto1 == ExpDiv(ctoc, bignum)
  IN  IF ExpEq(cfrom1, cfromc)
      THEN [alpha |-> ExpDiv(ctoc, cfromc), done |-> TRUE, cfromc |-> cfromc, ctoc |-> ctoc]
      ELSE IF ExpEq(cto1, ctoc)
      THEN [alpha |-> ctoc, done |-> TRUE, cfromc |-> [sgn |-> 1, ex |-> 0], ctoc |-> ctoc]
      ELSE IF ExpGt(ExpAbs(cfrom1), ExpAbs(ctoc)) /\ ~ExpIsZero(ctoc)
      THEN [alpha |-> smlnum, done |-> FALSE, cfromc |-> cfrom1, ctoc |-> ctoc]
      ELSE IF ExpGt(ExpAbs(cto1), ExpAbs(cfromc))
      THEN [alpha |-> smlnum, done |-> FALSE, cfromc |-> cfromc, ctoc |-> cto1]
      ELSE [alpha |-> ExpDiv(ctoc, cfromc), done |-> TRUE, cfromc |-> cfromc, ctoc |-> ctoc]
\* one pass of the do/while body: the factor alpha, done, and cfromc, ctoc
\* for the next pass
Rescl_Step(cfromc, ctoc) ==
  LET cfrom1 == ExpMul(cfromc, smlnum)
      cto1 == ExpDiv(ctoc, bignum)
  IN  IF ExpEq(cfrom1, cfromc)
      THEN [alpha |-> ExpDiv(ctoc, cfromc), done |-> TRUE, cfromc |-> cfromc, ctoc |-> ctoc]
      ELSE IF ExpEq(cto1, ctoc)
      THEN [alpha |-> ctoc, done |-> TRUE, cfromc |-> [sgn |-> 1, ex |-> 0], ctoc |-> ctoc]
      ELSE IF ExpGt(ExpAbs(cfrom1), ExpAbs(ctoc)) /\ ~ExpIsZero(ctoc)
      THEN [alpha |-> smlnum, done |-> FALSE, cfromc |-> cfrom1, ctoc |-> ctoc]
      ELSE IF ExpGt(ExpAbs(cto1), ExpAbs(cfromc))
      THEN [alpha |-> bignum, done |-> FALSE, cfromc |-> cfromc, ctoc |-> cto1]
      ELSE [alpha |-> ExpDiv(ctoc, cfromc), done |-> TRUE, cfromc |-> cfromc, ctoc |-> ctoc]

\* the finite scalars: zero and the signed powers of two DenExp .. MaxExp
ExpFinite == {ExpZero} \cup [sgn : {-1, 1}, ex : DenExp .. MaxExp]
ExpXVals == {[sgn |-> 1, ex |-> 0], [sgn |-> -1, ex |-> 1]}

ExpInit ==
  /\ LibIdle
  /\ \E nn \in 0 .. 1, c \in ExpFinite \ {ExpZero}, t \in ExpFinite :
       \E x \in [0 .. nn - 1 -> ExpXVals] :
         lib = [routine |-> "Vec_Rescl_Loop", cfrom |-> c, cto |-> t, n |-> nn,
                x0 |-> x, x |-> x, cfromc |-> c, ctoc |-> t,
                pc |-> "call", factors |-> <<>>]

\* the quick returns: 0 == n, cfrom == cto
Exp_QuickReturn ==
  /\ lib.routine = "Vec_Rescl_Loop" /\ lib.pc = "call"
  /\ ~(ExpIsZero(lib.cfrom) \/ ExpIsUndefined(lib.cfrom)) /\ ~ExpIsUndefined(lib.cto)
  /\ 0 = lib.n \/ ExpEq(lib.cfrom, lib.cto)
  /\ lib' = [lib EXCEPT !.pc = "done"]
  /\ UNCHANGED main
\* cfromc = cfrom, ctoc = cto, done = false
Exp_Start ==
  /\ lib.routine = "Vec_Rescl_Loop" /\ lib.pc = "call"
  /\ ~(ExpIsZero(lib.cfrom) \/ ExpIsUndefined(lib.cfrom)) /\ ~ExpIsUndefined(lib.cto)
  /\ ~(0 = lib.n \/ ExpEq(lib.cfrom, lib.cto))
  /\ lib' = [lib EXCEPT !.pc = "loop", !.cfromc = lib.cfrom, !.ctoc = lib.cto]
  /\ UNCHANGED main
\* one pass of the loop body followed by Vec_Scale and the test of done
Exp_Pass(done) ==
  /\ lib.routine = "Vec_Rescl_Loop" /\ lib.pc = "loop"
  /\ \E r \in {Rescl_Step(lib.cfromc, lib.ctoc)} :
       /\ r.done = done
       /\ lib' = [lib EXCEPT !.pc = IF r.done THEN "done" ELSE "loop",
                             !.cfromc = r.cfromc, !.ctoc = r.ctoc,
                             !.x = ExpVec_Scale(lib.n, r.alpha, lib.x),
                             !.factors = Append(lib.factors, r.alpha)]
  /\ UNCHANGED main
Exp_Iterate == Exp_Pass(FALSE)
Exp_Finish == Exp_Pass(TRUE)

ExpNext ==
  \/ Exp_QuickReturn
  \/ Exp_Start
  \/ Exp_Iterate
  \/ Exp_Finish

ExpSpec == ExpInit /\ [][ExpNext]_vars
\* the loop is sequential code: a pass that can be made is made
ExpFairSpec == ExpSpec /\ WF_vars(ExpNext)


(***************************************************************************)
(* Aux_PlnRot2 called on its own with finite f and g, the largest and the  *)
(* smallest magnitudes included.  A call whose rescaling loop never exits  *)
(* keeps executing ++count (a Size, which wraps).                          *)
(***************************************************************************)
\* width of Size in bits
SizeBits == 3
PlnVals ==
  {-maxValue, -unit, -minValue, 0, minValue, 2 * minValue, unit, 3 * unit,
   maxValue - 1, maxValue}

PlnInit ==
  /\ LibIdle
  /\ \E f \in PlnVals, g \in PlnVals :
       lib = [routine |-> "Aux_PlnRot2", f |-> f, g |-> g, pc |-> "call",
              count |-> 0, out |-> [cs |-> 0, sn |-> 0, r |-> 0, hang |-> FALSE]]

\* the call returns with cs, sn and r set
PlnRot2_Return ==
  /\ lib.routine = "Aux_PlnRot2" /\ lib.pc = "call"
  /\ \E out \in {Aux_PlnRot2(lib.f, lib.g)} :
       /\ ~out.hang
       /\ lib' = [lib EXCEPT !.pc = "done", !.out = out]
  /\ UNCHANGED main
\* one more pass of a rescaling loop that never exits
PlnRot2_Spin ==
  /\ lib.routine = "Aux_PlnRot2" /\ lib.pc \in {"call", "loop"}
  /\ Aux_PlnRot2(lib.f, lib.g).hang
  /\ lib' = [lib EXCEPT !.pc = "loop", !.count = (lib.count + 1) % 2 ^ SizeBits]
  /\ UNCHANGED main

PlnNext ==
  \/ PlnRot2_Return
  \/ PlnRot2_Spin

PlnSpec == PlnInit /\ [][PlnNext]_vars
PlnFairSpec == PlnSpec /\ WF_vars(PlnNext)


(***************************************************************************)
(* Rfl_VecGen called on its own: alpha, the cnt - 1 elements of x and tau  *)
(* after the call, and which of them the call has written.                 *)
(***************************************************************************)
\* Vec_Norm2( cnt, x, 1 ), the branch taken when isExact is false
RECURSIVE Vec_Norm2_Loop(_, _, _, _, _, _)
Vec_Norm2_Loop(i, cnt, x, scl, ssq, norm) ==
  IF i < cnt
  THEN LET xi == Abs(Rd(x, i))
           grows == ~IsZero(xi) /\ ~Ge(scl, xi)
           ssq1 == IF IsZero(xi) THEN ssq
                   ELSE IF Ge(scl, xi) THEN Add(ssq, Sqr(Div(xi, scl)))
                   ELSE Add(unit, Mul(ssq, Sqr(Div(scl, xi))))
           scl1 == IF grows THEN xi ELSE scl
       IN  Vec_Norm2_Loop(i + 1, cnt, x, scl1, ssq1, Mul(scl1, Sqrt(ssq1)))
  ELSE norm
Vec_Norm2(cnt, x) ==
  IF 0 = cnt THEN 0
  ELSE IF 1 = cnt THEN Abs(Rd(x, 0))
  ELSE Vec_Norm2_Loop(0, cnt, x, 0, unit, 0)

\* the do/while of Rfl_VecGen that scales x, beta and alpha by 1/safmin
RECURSIVE VecGen_Rescale(_, _, _, _, _)
VecGen_Rescale(knt, cnt, x, beta, alpha) ==
  LET x1 == Vec_Scale(cnt - 1, Inv(minValue), x, 0)
      beta1 == Mul(beta, Inv(minValue))
      alpha1 == Mul(alpha, Inv(minValue))
  IN  IF Lt(Abs(beta1), minValue) /\ knt + 1 < 20
      THEN VecGen_Rescale(knt + 1, cnt, x1, beta1, alpha1)
      ELSE [knt |-> knt + 1, x |-> x1, alpha |-> alpha1]
\* the general case of Rfl_VecGen
VecGen_General(cnt, alpha, x) ==
  LET beta0 == Neg(CopySign(Hypot(alpha, Vec_Norm2(cnt - 1, x)), alpha))
      small == Lt(Abs(beta0), minValue)
      sc == IF small THEN VecGen_Rescale(0, cnt, x, beta0, alpha)
            ELSE [knt |-> 0, x |-> x, alpha |-> alpha]
      beta == IF small
              THEN Neg(CopySign(Hypot(sc.alpha, Vec_Norm2(cnt - 1, sc.x)), sc.alpha))
              ELSE beta0
  IN  [alpha |-> MulTimes(beta, minValue, sc.knt),
       x |-> Vec_Scale(cnt - 1, Inv(Sub(sc.alpha, beta)), sc.x, 0),
       tau |-> Div(Sub(beta, sc.alpha), beta),
       writes |-> {"alpha", "x", "tau"}]
\* variant: the test of xnorm for zero is left out
Rfl_VecGen_NoIdentity(cnt, alpha, x, tau) ==
  IF 0 = cnt THEN [alpha |-> alpha, x |-> x, tau |-> tau, writes |-> {}]
  ELSE IF 1 = cnt THEN [alpha |-> alpha, x |-> x, tau |-> 0, writes |-> {"tau"}]
  ELSE VecGen_General(cnt, alpha, x)
\* Rfl_VecGen( cnt, alpha, x, 1, tau )
Rfl_VecGen(cnt, alpha, x, tau) ==
  IF 0 = cnt THEN [alpha |-> alpha, x |-> x, tau |-> tau, writes |-> {}]
  ELSE IF 1 = cnt THEN [alpha |-> alpha, x |-> x, tau |-> 0, writes |-> {"tau"}]
  ELSE IF IsZero(Vec_Norm2(cnt - 1, x))
  THEN [alpha |-> alpha, x |-> x, tau |-> 0, writes |-> {"tau"}]
  ELSE VecGen_General(cnt, alpha, x)

\* largest order of a reflector
MaxRfl == 3
RflAlphas == {-unit, 0, 1, 2 * unit}
RflXVals == {0, unit, -3 * unit}
RflTaus == {0, 7 * unit}

VecGenInit ==
  /\ LibIdle
  /\ \E nn \in 0 .. MaxRfl, a \in RflAlphas, t \in RflTaus :
       \E x \in [0 .. nn - 2 -> RflXVals] :
         lib = [routine |-> "Rfl_VecGen", n |-> nn, alpha0 |-> a, x0 |-> x, tau0 |-> t,
                pc |-> "call", alpha |-> a, x |-> x, tau |-> t, writes |-> {}]

\* the call, told apart by what it has written
VecGenCall(writes) ==
  /\ lib.routine = "Rfl_VecGen" /\ lib.pc = "call"
  /\ \E r \in {Rfl_VecGen(lib.n, lib.alpha, lib.x, lib.tau)} :
       /\ r.writes = writes
       /\ lib' = [lib EXCEPT !.pc = "done", !.alpha = r.alpha, !.x = r.x,
                             !.tau = r.tau, !.writes = r.writes]
  /\ UNCHANGED main
VecGen_NoOp == VecGenCall({})
VecGen_Identity == VecGenCall({"tau"})
VecGen_Reflector == VecGenCall({"alpha", "x", "tau"})

VecGenNext ==
  \/ VecGen_NoOp
  \/ VecGen_Identity
  \/ VecGen_Reflector

VecGenSpec == VecGenInit /\ [][VecGenNext]_vars


(***************************************************************************)
(* Rfl_MatMul called on its own over exact (integer) scalars.  C is an     *)
(* m x n block indexed from 0, v has m (Side::Left) or n (Side::Right)     *)
(* elements, work is a buffer long enough for every access made; the       *)
(* indices of work that are read or written are recorded.  A read of C     *)
(* outside the block yields the value oob.                                 *)
(***************************************************************************)
\* largest number of rows and of columns of C
MaxBlk == 2
BlkVals == {0, 1}
VVals == {-1, 0, 1}
TauVals == {-2, 0, 1}
WorkFill == 5

Rfl_MatMul_WorkSize(m, nn) == nn

MatRd(A, i, j, oob) == IF <<i, j>> \in DOMAIN A THEN A[<<i, j>>] ELSE oob
SetMax(S) == CHOOSE x \in S : \A y \in S : y <= x
RECURSIVE SumOver(_, _)
SumOver(f, S) ==
  IF S = {} THEN 0
  ELSE LET x == SetMax(S) IN f[x] + SumOver(f, S \ {x})

\* variant: the scan reports the column before the last non-zero one
Idx_LastCol_OneShort(m, nn, A, oob) ==
  IF 0 = nn THEN -1
  ELSE IF MatRd(A, 0, nn - 1, oob) # 0 \/ MatRd(A, m - 1, nn - 1, oob) # 0 THEN nn - 1
  ELSE LET S == {j \in 0 .. nn - 1 : \E i \in 0 .. m - 1 : MatRd(A, i, j, oob) # 0}
       IN  IF S = {} THEN -1 ELSE SetMax(S) - 1
\* Idx_LastCol( m, nn, A, A_ld ): the last column of A(0:m-1,0:nn-1) that
\* holds a non-zero element, or -1
Idx_LastCol(m, nn, A, oob) ==
  IF 0 = nn THEN -1
  ELSE IF MatRd(A, 0, nn - 1, oob) # 0 \/ MatRd(A, m - 1, nn - 1, oob) # 0 THEN nn - 1
  ELSE LET S == {j \in 0 .. nn - 1 : \E i \in 0 .. m - 1 : MatRd(A, i, j, oob) # 0}
       IN  IF S = {} THEN -1 ELSE SetMax(S)
\* Idx_LastRow( m, nn, A, A_ld ): the last row of A(0:m-1,0:nn-1) that holds
\* a non-zero element, or -1
Idx_LastRow(m, nn, A, oob) ==
  IF 0 = m THEN -1
  ELSE IF MatRd(A, m - 1, 0, oob) # 0 \/ MatRd(A, m - 1, nn - 1, oob) # 0 THEN m - 1
  ELSE SetMax({-1} \cup
              {i \in 0 .. m - 1 : \E j \in 0 .. nn - 1 :
                 /\ MatRd(A, i, j, oob) # 0
                 /\ \A i2 \in i + 1 .. m - 1 : MatRd(A, i2, j, oob) = 0})

\* the scan for the last non-zero element of v
LastV(v, len) == SetMax({0} \cup {i + 1 : i \in {i2 \in 0 .. len - 1 : v[i2] # 0}})

\* Mat_VecMul( trnsp, ..., one, C, C_ld, v, V_cs, {}, work, 1 ): the first
\* cnt elements of work are set to zero and receive the products
Mat_VecMul_Yes(lastv, lastc, C, v, wk) ==
  [j \in DOMAIN wk |->
     IF j < lastc
     THEN SumOver([i \in 0 .. lastv - 1 |-> v[i] * C[<<i, j>>]], 0 .. lastv - 1)
     ELSE wk[j]]
Mat_VecMul_No(lastc, lastv, C, v, wk) ==
  [i \in DOMAIN wk |->
     IF i < lastc
     THEN SumOver([j \in 0 .. lastv - 1 |-> v[j] * C[<<i, j>>]], 0 .. lastv - 1)
     ELSE wk[i]]
\* Mat_Rank1Upd( rows, cols, alpha, x, 1, y, 1, C, C_ld ):  C += alpha*x*(~y)
Mat_Rank1Upd(rows, cols, alpha, x, y, C) ==
  IF alpha = 0 THEN C
  ELSE [ij \in DOMAIN C |->
          IF ij[1] < rows /\ ij[2] < cols
          THEN C[ij] + x[ij[1]] * (alpha * y[ij[2]])
          ELSE C[ij]]

\* Rfl_MatMul( side, m, nn, v, 1, tau, C, C_ld, work ): C and work afterwards,
\* lastv and lastc, and the indices of work and the elements of C accessed
\* by the two BLAS calls
Rfl_MatMul(side, m, nn, v, tau, C, wk, oob) ==
  IF tau = 0
  THEN [C |-> C, work |-> wk, lastv |-> 0, lastc |-> 0, workAcc |-> {}, cAcc |-> {}]
  ELSE
    LET lastv == LastV(v, IF side = "Left" THEN m ELSE nn)
        lastc == IF side = "Left" THEN Idx_LastCol(lastv, nn, C, oob) + 1
                 ELSE Idx_LastRow(m, lastv, C, oob) + 1
    IN  IF lastv = 0
        THEN [C |-> C, work |-> wk, lastv |-> lastv, lastc |-> lastc,
              workAcc |-> {}, cAcc |-> {}]
        ELSE IF side = "Left"
        THEN LET w == Mat_VecMul_Yes(lastv, lastc, C, v, wk)
             IN  [C |-> Mat_Rank1Upd(lastv, lastc, -tau, v, w, C), work |-> w,
                  lastv |-> lastv, lastc |-> lastc,
                  workAcc |-> 0 .. lastc - 1,
                  cAcc |-> (0 .. lastv - 1) \X (0 .. lastc - 1)]
        ELSE LET w == Mat_VecMul_No(lastc, lastv, C, v, wk)
             IN  [C |-> Mat_Rank1Upd(lastc, lastv, -tau, w, v, C), work |-> w,
                  lastv |-> lastv, lastc |-> lastc,
                  workAcc |-> 0 .. lastc - 1,
                  cAcc |-> (0 .. lastc - 1) \X (0 .. lastv - 1)]

RflMulInit ==
  /\ LibIdle
  /\ \E side \in Sides, m \in 0 .. MaxBlk, nn \in 0 .. MaxBlk, tau \in TauVals :
       \E v \in [0 .. (IF side = "Left" THEN m ELSE nn) - 1 -> VVals],
          C \in [(0 .. m - 1) \X (0 .. nn - 1) -> BlkVals] :
         lib = [routine |-> "Rfl_MatMul", side |-> side, m |-> m, n |-> nn,
                v |-> v, tau |-> tau, C0 |-> C,
                work0 |-> [i \in 0 .. MaxBlk - 1 |-> WorkFill],
                pc |-> "call",
                out |-> [C |-> C, work |-> [i \in 0 .. MaxBlk - 1 |-> WorkFill],
                         lastv |-> 0, lastc |-> 0, workAcc |-> {}, cAcc |-> {}]]

\* the call; oob is whatever a read outside the block yields
RflMulCall(sides, taus) ==
  /\ lib.routine = "Rfl_MatMul" /\ lib.pc = "call"
  /\ lib.side \in sides /\ lib.tau \in taus
  /\ \E oob \in BlkVals :
       lib' = [lib EXCEPT !.pc = "done",
                          !.out = Rfl_MatMul(lib.side, lib.m, lib.n, lib.v, lib.tau,
                                             lib.C0, lib.work0, oob)]
  /\ UNCHANGED main
RflMul_Identity == RflMulCall(Sides, {0})
RflMul_Left == RflMulCall({"Left"}, TauVals \ {0})
RflMul_Right == RflMulCall({"Right"}, TauVals \ {0})

RflMulNext ==
  \/ RflMul_Identity
  \/ RflMul_Left
  \/ RflMul_Right

RflMulSpec == RflMulInit /\ [][RflMulNext]_vars


(***************************************************************************)
(* Sym_Rdto_Syt followed statement by statement, for what it writes and    *)
(* when.  Every write stores a stamp (the value of a clock that advances   *)
(* with each write) and every copy carries the stamp of its source, so     *)
(* that two cells hold the same stamp only if one was copied from the      *)
(* other.  The cells of A start with distinct negative stamps; d, e and    *)
(* tau start at 0.  Whether Rfl_VecGen returns tau = 0 depends on the data *)
(* and is left open, except for order 1 where it always does.              *)
(***************************************************************************)
\* largest order of the matrix reduced
MaxOrder == 5

\* the elements alpha and x of the reflector generated in pass i, and its order
Rdto_Order(hf, nn, i) == IF hf = "Upper" THEN i + 1 ELSE nn - (i + 1)
Rdto_Alpha(hf, i) == IF hf = "Upper" THEN <<i, i + 1>> ELSE <<i + 1, i>>
Rdto_X(hf, nn, i) ==
  IF hf = "Upper" THEN {<<r, i + 1>> : r \in 0 .. i - 1}
  ELSE {<<r, i>> : r \in i + 2 .. nn - 1}
\* variant: the scratch vector of the lower case starts at tau, not tau + i
Rdto_Scratch_FromZero(hf, nn, i) ==
  IF hf = "Upper" THEN 0 .. i ELSE 0 .. nn - (i + 1) - 1
\* the elements of tau that Sym_VecMul and Vec_AXPlusY write in pass i
Rdto_Scratch(hf, nn, i) ==
  IF hf = "Upper" THEN 0 .. i ELSE i .. i + nn - (i + 1) - 1
\* the elements of A that Sym_Rank2Upd writes in pass i
Rdto_Updated(hf, nn, i) ==
  IF hf = "Upper" THEN {<<r, c>> \in (0 .. i) \X (0 .. i) : r <= c}
  ELSE {<<r, c>> \in (i + 1 .. nn - 1) \X (i + 1 .. nn - 1) : r >= c}
\* the diagonal element stored at the end of pass i
Rdto_Diag(hf, i) == IF hf = "Upper" THEN i + 1 ELSE i
\* the loop test
Rdto_InLoop(hf, nn, i) == IF hf = "Upper" THEN i >= 0 ELSE i < nn - 1

Stamp(arr, S, st) == [x \in DOMAIN arr |-> IF x \in S THEN st ELSE arr[x]]

RdtoInit ==
  /\ LibIdle
  /\ \E hf \in Halves, nn \in 0 .. MaxOrder :
       lib = [routine |-> "Sym_Rdto_Syt", half |-> hf, n |-> nn, pc |-> "call",
              i |-> 0, taui |-> 0, clock |-> 0,
              A |-> [ij \in (0 .. nn - 1) \X (0 .. nn - 1) |-> -(ij[1] * nn + ij[2] + 1)],
              d |-> [j \in 0 .. nn - 1 |-> 0],
              e |-> [j \in 0 .. nn - 2 |-> 0],
              tau |-> [j \in 0 .. nn - 2 |-> 0],
              dW |-> {}, eW |-> {}, tauW |-> {},
              finSet |-> {}, finVal |-> [j \in 0 .. nn - 2 |-> 0]]

InRdto == lib.routine = "Sym_Rdto_Syt"

\* if( 0 == n ){ return; }
Rdto_QuickReturn ==
  /\ InRdto /\ lib.pc = "call" /\ 0 = lib.n
  /\ lib' = [lib EXCEPT !.pc = "done"]
  /\ UNCHANGED main
\* the loop header: i = n-2 (Upper), i = 0 (Lower)
Rdto_Enter ==
  /\ InRdto /\ lib.pc = "call" /\ 0 # lib.n
  /\ lib' = [lib EXCEPT !.pc = "loop", !.i = IF lib.half = "Upper" THEN lib.n - 2 ELSE 0]
  /\ UNCHANGED main
\* Rfl_VecGen returns taui = 0 and leaves A alone;  e[i] = A(i,i+1)
Rdto_Identity ==
  /\ InRdto /\ lib.pc = "loop" /\ Rdto_InLoop(lib.half, lib.n, lib.i)
  /\ lib' = [lib EXCEPT !.pc = "store", !.taui = 0,
                        !.e = Wr(lib.e, lib.i, lib.A[Rdto_Alpha(lib.half, lib.i)]),
                        !.eW = lib.eW \cup {lib.i}]
  /\ UNCHANGED main
\* Rfl_VecGen writes alpha, x and a non-zero taui;  e[i] = A(i,i+1)
Rdto_Reflect ==
  /\ InRdto /\ lib.pc = "loop" /\ Rdto_InLoop(lib.half, lib.n, lib.i)
  /\ Rdto_Order(lib.half, lib.n, lib.i) # 1
  /\ lib' = [lib EXCEPT !.pc = "apply", !.taui = lib.clock + 1, !.clock = lib.clock + 1,
                        !.A = Stamp(lib.A, {Rdto_Alpha(lib.half, lib.i)}
                                            \cup Rdto_X(lib.half, lib.n, lib.i),
                                    lib.clock + 1),
                        !.e = Wr(lib.e, lib.i, lib.clock + 1),
                        !.eW = lib.eW \cup {lib.i}]
  /\ UNCHANGED main
\* the body of if( ! IsZero( taui ) ): the unit element is stored, x and w
\* are formed in tau, A is updated and the element e[i] is put back
Rdto_Apply ==
  /\ InRdto /\ lib.pc = "apply"
  /\ lib' = [lib EXCEPT !.pc = "store", !.clock = lib.clock + 3,
                        !.tau = Stamp(lib.tau, Rdto_Scratch(lib.half, lib.n, lib.i),
                                      lib.clock + 2),
                        !.tauW = lib.tauW \cup Rdto_Scratch(lib.half, lib.n, lib.i),
                        !.A = Stamp(Stamp(Stamp(lib.A, {Rdto_Alpha(lib.half, lib.i)},
                                                lib.clock + 1),
                                          Rdto_Updated(lib.half, lib.n, lib.i), lib.clock + 3),
                                    {Rdto_Alpha(lib.half, lib.i)}, lib.e[lib.i])]
  /\ UNCHANGED main
\* d[i+1] = A(i+1,i+1) (Upper), d[i] = A(i,i) (Lower);  tau[i] = taui;  next i
Rdto_Store ==
  /\ InRdto /\ lib.pc = "store"
  /\ \E dg \in {Rdto_Diag(lib.half, lib.i)} :
       lib' = [lib EXCEPT !.pc = "loop",
                          !.d = Wr(lib.d, dg, lib.A[<<dg, dg>>]),
                          !.dW = lib.dW \cup {dg},
                          !.tau = Wr(lib.tau, lib.i, lib.taui),
                          !.tauW = lib.tauW \cup {lib.i},
                          !.finSet = lib.finSet \cup {lib.i},
                          !.finVal = Wr(lib.finVal, lib.i, lib.taui),
                          !.i = IF lib.half = "Upper" THEN lib.i - 1 ELSE lib.i + 1]
  /\ UNCHANGED main
\* after the loop: d[0] = A(0,0) (Upper), d[n-1] = A(n-1,n-1) (Lower)
Rdto_Last ==
  /\ InRdto /\ lib.pc = "loop" /\ ~Rdto_InLoop(lib.half, lib.n, lib.i)
  /\ \E dg \in {IF lib.half = "Upper" THEN 0 ELSE lib.n - 1} :
       lib' = [lib EXCEPT !.pc = "done",
                          !.d = Wr(lib.d, dg, lib.A[<<dg, dg>>]),
                          !.dW = lib.dW \cup {dg}]
  /\ UNCHANGED main

RdtoNext ==
  \/ Rdto_QuickReturn
  \/ Rdto_Enter
  \/ Rdto_Identity
  \/ Rdto_Reflect
  \/ Rdto_Apply
  \/ Rdto_Store
  \/ Rdto_Last

RdtoSpec == RdtoInit /\ [][RdtoNext]_vars


(***************************************************************************)
(* Syt_Norm called on its own for NormType::Max, One and Inf, with the     *)
(* indices of d and e it reads.                                            *)
(***************************************************************************)
NormTypes == {"Max", "One", "Inf"}
NormVals == {-2 * unit, 0, unit, 3 * unit}

\* the loop of the case NormType::One / NormType::Inf
RECURSIVE Syt_Norm_OneLoop(_, _, _, _, _)
Syt_Norm_OneLoop(i, cnt, dd, ee, nrm) ==
  IF i < cnt - 1
  THEN Syt_Norm_OneLoop(i + 1, cnt, dd, ee,
         Syt_Norm_MaxOf(nrm, Add(Add(Abs(Rd(dd, i)), Abs(Rd(ee, i))), Abs(Rd(ee, i - 1)))))
  ELSE nrm
\* variant: the sum of the last row is not looked at
Syt_Norm_One_NoLastRow(cnt, dd, ee) ==
  IF 1 = cnt THEN Abs(Rd(dd, 0))
  ELSE Syt_Norm_OneLoop(1, cnt, dd, ee, Add(Abs(Rd(dd, 0)), Abs(Rd(ee, 0))))
\* the case NormType::One / NormType::Inf
Syt_Norm_One(cnt, dd, ee) ==
  IF 1 = cnt THEN Abs(Rd(dd, 0))
  ELSE Syt_Norm_OneLoop(1, cnt, dd, ee,
         Syt_Norm_MaxOf(Add(Abs(Rd(dd, 0)), Abs(Rd(ee, 0))),
                        Add(Abs(Rd(ee, cnt - 2)), Abs(Rd(dd, cnt - 1)))))
\* Syt_Norm( normType, cnt, d, e )
Syt_Norm(normType, cnt, dd, ee) ==
  IF 0 = cnt THEN 0
  ELSE IF normType = "Max" THEN Syt_Norm_Max(cnt, dd, ee, 0)
  ELSE Syt_Norm_One(cnt, dd, ee)
\* the indices of d and e that Syt_Norm reads
Syt_Norm_Reads(normType, cnt) ==
  IF 0 = cnt THEN [d |-> {}, e |-> {}]
  ELSE IF normType = "Max"
  THEN [d |-> {cnt - 1} \cup (0 .. cnt - 2), e |-> 0 .. cnt - 2]
  ELSE IF 1 = cnt THEN [d |-> {0}, e |-> {}]
  ELSE [d |-> {0, cnt - 1} \cup (1 .. cnt - 2),
        e |-> {0, cnt - 2} \cup UNION {{i, i - 1} : i \in 1 .. cnt - 2}]

NormInit ==
  /\ LibIdle
  /\ \E nt \in NormTypes, nn \in 0 .. MaxN :
       \E dd \in [0 .. nn - 1 -> NormVals], ee \in [0 .. nn - 2 -> NormVals] :
         lib = [routine |-> "Syt_Norm", normType |-> nt, n |-> nn, d0 |-> dd, e0 |-> ee,
                d |-> dd, e |-> ee, pc |-> "call", value |-> 0,
                reads |-> [d |-> {}, e |-> {}]]

NormCall(types, orders) ==
  /\ lib.routine = "Syt_Norm" /\ lib.pc = "call"
  /\ lib.normType \in types /\ lib.n \in orders
  /\ lib' = [lib EXCEPT !.pc = "done",
                        !.value = Syt_Norm(lib.normType, lib.n, lib.d, lib.e),
                        !.reads = Syt_Norm_Reads(lib.normType, lib.n)]
  /\ UNCHANGED main
Norm_Empty == NormCall(NormTypes, {0})
Norm_Max == NormCall({"Max"}, 1 .. MaxN + 1)
Norm_OneInf == NormCall({"One", "Inf"}, 1 .. MaxN + 1)

NormNext ==
  \/ Norm_Empty
  \/ Norm_Max
  \/ Norm_OneInf

NormSpec == NormInit /\ [][NormNext]_vars

(***************************************************************************)
(* Mat_MatMul on flat buffers of exact integers.  A block is addressed as  *)
(* the layout addresses it: element (i, j) of a block with leading         *)
(* dimension ld is at i + j*ld (ColMajor) or i*ld + j (RowMajor).  The     *)
(* buffers are larger than the blocks, so that an access outside the       *)
(* m x n block of C lands on a cell whose value is known.                  *)
(***************************************************************************)
MaxMM == 2
MatLd == MaxMM + 1
Layouts == {"ColMajor", "RowMajor"}
MMScalars == {0, 1, 2}

\* Lyt::MatRef / Lyt::BlkPtr
BlkPtr(lyt, i, j, ld) == IF lyt = "ColMajor" THEN i + j * ld ELSE i * ld + j
\* Lyt::RowStride and Lyt::ColStride
RowStride(lyt, ld) == IF lyt = "ColMajor" THEN ld ELSE 1
ColStride(lyt, ld) == IF lyt = "ColMajor" THEN 1 ELSE ld

\* the cells base, base + s, ... of a vector of cnt elements
Cells(cnt, base, s) == {base + i * s : i \in 0 .. cnt - 1}
\* Vec_Zero( cnt, x, s ) and Vec_Scale( cnt, alpha, x, s ) on a flat buffer
Flat_Zero(cnt, buf, base, s) ==
  [p \in DOMAIN buf |-> IF p \in Cells(cnt, base, s) THEN 0 ELSE buf[p]]
Flat_Scale(cnt, alpha, buf, base, s) ==
  [p \in DOMAIN buf |-> IF p \in Cells(cnt, base, s) THEN alpha * buf[p] ELSE buf[p]]

\* Mat_VecMul( trnsp, mm, nn, alpha, A, ld, x, xs, beta, y, ys ): A is taken
\* as an mm x nn block; y has mm elements for Trnsp::No and nn for Trnsp::Yes
Flat_VecMul(lyt, trnsp, mm, nn, alpha, A, ld, xbuf, xb, xs, beta, ybuf, yb, ys) ==
  IF trnsp = "No"
  THEN [p \in DOMAIN ybuf |->
         IF p \in Cells(mm, yb, ys)
         THEN LET i == CHOOSE i \in 0 .. mm - 1 : p = yb + i * ys
              IN  beta * ybuf[p]
                  + SumOver([j \in 0 .. nn - 1 |->
                              alpha * xbuf[xb + j * xs] * A[BlkPtr(lyt, i, j, ld)]],
                            0 .. nn - 1)
         ELSE ybuf[p]]
  ELSE [p \in DOMAIN ybuf |->
         IF p \in Cells(nn, yb, ys)
         THEN LET j == CHOOSE j \in 0 .. nn - 1 : p = yb + j * ys
              IN  beta * ybuf[p]
                  + SumOver([i \in 0 .. mm - 1 |->
                              alpha * xbuf[xb + i * xs] * A[BlkPtr(lyt, i, j, ld)]],
                            0 .. mm - 1)
         ELSE ybuf[p]]

\* the loops of the alpha = 0 branch: Vec_Zero with m elements per column
\* (n per row), Vec_Scale with n elements per column (m per row)
RECURSIVE MatMul_Zero(_, _, _, _, _, _)
MatMul_Zero(lyt, j, m, nn, C, ld) ==
  IF lyt = "ColMajor"
  THEN IF j < nn
       THEN MatMul_Zero(lyt, j + 1, m, nn, Flat_Zero(m, C, BlkPtr(lyt, 0, j, ld), 1), ld)
       ELSE C
  ELSE IF j < m
       THEN MatMul_Zero(lyt, j + 1, m, nn, Flat_Zero(nn, C, BlkPtr(lyt, j, 0, ld), 1), ld)
       ELSE C
RECURSIVE MatMul_Scale(_, _, _, _, _, _, _)
MatMul_Scale(lyt, j, m, nn, beta, C, ld) ==
  IF lyt = "ColMajor"
  THEN IF j < nn
       THEN MatMul_Scale(lyt, j + 1, m, nn, beta,
                         Flat_Scale(nn, beta, C, BlkPtr(lyt, 0, j, ld), 1), ld)
       ELSE C
  ELSE IF j < m
       THEN MatMul_Scale(lyt, j + 1, m, nn, beta,
                         Flat_Scale(m, beta, C, BlkPtr(lyt, j, 0, ld), 1), ld)
       ELSE C
\* the loop over the columns of C for alpha /= 0
RECURSIVE MatMul_Cols(_, _, _, _, _, _, _, _, _, _, _, _)
MatMul_Cols(lyt, ta, tb, j, m, nn, kk, alpha, A, B, beta, C) ==
  IF j < nn
  THEN MatMul_Cols(lyt, ta, tb, j + 1, m, nn, kk, alpha, A, B, beta,
         Flat_VecMul(lyt, ta, m, kk, alpha, A, MatLd, B,
                     IF tb = "No" THEN BlkPtr(lyt, 0, j, MatLd) ELSE BlkPtr(lyt, j, 0, MatLd),
                     IF tb = "No" THEN ColStride(lyt, MatLd) ELSE RowStride(lyt, MatLd),
                     beta, C, BlkPtr(lyt, 0, j, MatLd), ColStride(lyt, MatLd)))
  ELSE C
\* Mat_MatMul< lyt >( ta, tb, m, nn, kk, alpha, A, ld, B, ld, beta, C, ld )
Mat_MatMul(lyt, ta, tb, m, nn, kk, alpha, A, B, beta, C) ==
  IF 0 = m \/ 0 = nn \/ 0 = kk THEN C
  ELSE IF alpha = 0 /\ beta = 1 THEN C
  ELSE IF alpha = 0
  THEN IF beta = 0 THEN MatMul_Zero(lyt, 0, m, nn, C, MatLd)
       ELSE MatMul_Scale(lyt, 0, m, nn, beta, C, MatLd)
  ELSE MatMul_Cols(lyt, ta, tb, 0, m, nn, kk, alpha, A, B, beta, C)

MatBuf(f) == [p \in 0 .. MatLd * MatLd - 1 |-> f + p]

MatMulInit ==
  /\ LibIdle
  /\ \E lyt \in Layouts, ta \in {"No", "Yes"}, tb \in {"No", "Yes"},
        mm \in 0 .. MaxMM, nn \in 0 .. MaxMM, kk \in 0 .. MaxMM,
        al \in MMScalars, be \in MMScalars :
       lib = [routine |-> "Mat_MatMul", layout |-> lyt, A_trnsp |-> ta, B_trnsp |-> tb,
              m |-> mm, n |-> nn, k |-> kk, alpha |-> al, beta |-> be,
              A |-> MatBuf(1), B |-> MatBuf(2), C0 |-> MatBuf(3), C |-> MatBuf(3),
              pc |-> "call"]

MatMulCall(quick, alphas, betas, tbs) ==
  /\ lib.routine = "Mat_MatMul" /\ lib.pc = "call"
  /\ (0 = lib.m \/ 0 = lib.n \/ 0 = lib.k \/ (lib.alpha = 0 /\ lib.beta = 1)) = quick
  /\ lib.alpha \in alphas /\ lib.beta \in betas /\ lib.B_trnsp \in tbs
  /\ lib' = [lib EXCEPT !.pc = "done",
                        !.C = Mat_MatMul(lib.layout, lib.A_trnsp, lib.B_trnsp, lib.m, lib.n,
                                         lib.k, lib.alpha, lib.A, lib.B, lib.beta, lib.C)]
  /\ UNCHANGED main
MatMul_QuickReturn == MatMulCall(TRUE, MMScalars, MMScalars, {"No", "Yes"})
MatMul_ZeroFill == MatMulCall(FALSE, {0}, {0}, {"No", "Yes"})
MatMul_ScaleOnly == MatMulCall(FALSE, {0}, MMScalars \ {0}, {"No", "Yes"})
MatMul_TimesB == MatMulCall(FALSE, MMScalars \ {0}, MMScalars, {"No"})
MatMul_TimesBt == MatMulCall(FALSE, MMScalars \ {0}, MMScalars, {"Yes"})

MatMulNext ==
  \/ MatMul_QuickReturn
  \/ MatMul_ZeroFill
  \/ MatMul_ScaleOnly
  \/ MatMul_TimesB
  \/ MatMul_TimesBt

MatMulSpec == MatMulInit /\ [][MatMulNext]_vars

(***************************************************************************)
(* Mat_Fctr_LU, the recursive LU factorization with partial pivoting, in   *)
(* the scalar arithmetic of the model.  The block being factored is the    *)
(* m x nn block whose first element is A(o, o); piv is indexed from o and  *)
(* holds row numbers relative to the block, as the code's piv_ + n1 does.  *)
(***************************************************************************)
MaxLU == 3
LUVals == {0, unit, 2 * unit}

\* Mat_RowSwp( nc, A_Blk(o, c0), ld, i, kl, piv ): rows i .. kl of the block
RECURSIVE Mat_RowSwp(_, _, _, _, _, _, _)
Mat_RowSwp(nc, A, o, c0, i, kl, piv) ==
  IF 0 = nc \/ i > kl THEN A
  ELSE LET i1 == piv[o + i]
           swapped ==
             IF i = i1 THEN A
             ELSE [ij \in DOMAIN A |->
                    IF ij[2] \in c0 .. c0 + nc - 1 /\ ij[1] = o + i THEN A[<<o + i1, ij[2]>>]
                    ELSE IF ij[2] \in c0 .. c0 + nc - 1 /\ ij[1] = o + i1
                         THEN A[<<o + i, ij[2]>>]
                    ELSE A[ij]]
       IN  Mat_RowSwp(nc, swapped, o, c0, i + 1, kl, piv)

\* the pivot search of the one column case: the row of the first largest |A(i,0)|
RECURSIVE LU_Pivot(_, _, _, _, _)
LU_Pivot(m, A, o, i, kk) ==
  IF i < m
  THEN LU_Pivot(m, A, o, i + 1,
                IF Gt(Abs(A[<<o + i, o>>]), Abs(A[<<o + kk, o>>])) THEN i ELSE kk)
  ELSE kk
\* the one column case
LU_OneColumn(m, A, o, piv) ==
  LET kk == LU_Pivot(m, A, o, 1, 0)
      A_k0 == A[<<o + kk, o>>]
  IN  IF IsZero(A_k0) THEN [A |-> A, piv |-> [piv EXCEPT ![o] = kk], i |-> 0]
      ELSE [A |-> [ij \in DOMAIN A |->
                    IF ij[2] # o \/ ij[1] < o THEN A[ij]
                    ELSE IF ij[1] = o THEN A_k0
                    ELSE LET a == IF ij[1] = o + kk THEN A[<<o, o>>] ELSE A[ij]
                         IN  IF Ge(Abs(A_k0), minValue) THEN Mul(a, Inv(A_k0))
                             ELSE Div(a, A_k0)],
            piv |-> [piv EXCEPT ![o] = kk], i |-> -1]

\* Tri_Solv_Mat( Side::Left, Half::Lower, Trnsp::No, Diag::IsUnit, n1, n2,
\* unit, A, ld, A_Blk(0, n1), ld ): column j of A01, rows kk .. n1 - 1
RECURSIVE LU_SolveCol(_, _, _, _, _)
LU_SolveCol(n1, A, o, j, kk) ==
  IF kk < n1
  THEN LU_SolveCol(n1,
         IF IsZero(A[<<o + kk, j>>]) THEN A
         ELSE [ij \in DOMAIN A |->
                IF ij[2] = j /\ ij[1] \in o + kk + 1 .. o + n1 - 1
                THEN Sub(A[ij], Mul(A[<<o + kk, j>>], A[<<ij[1], o + kk>>]))
                ELSE A[ij]],
         o, j, kk + 1)
  ELSE A
\* Mat_MatMul( Trnsp::No, Trnsp::No, m - n1, n2, n1, -unit, A_Blk(n1, 0), ld,
\* A_Blk(0, n1), ld, unit, A_Blk(n1, n1), ld ): column j of A11 takes
\* -A01(l, j) times column l of A10, for l = ll .. n1 - 1
RECURSIVE LU_UpdateCol(_, _, _, _, _, _)
LU_UpdateCol(m, n1, A, o, j, ll) ==
  IF ll < n1
  THEN LU_UpdateCol(m, n1,
         [ij \in DOMAIN A |->
           IF ij[2] = j /\ ij[1] \in o + n1 .. o + m - 1
           THEN Add(A[ij], Mul(Mul(Neg(unit), A[<<o + ll, j>>]), A[<<ij[1], o + ll>>]))
           ELSE A[ij]],
         o, j, ll + 1)
  ELSE A
\* both steps for the columns j .. of the right part
RECURSIVE LU_Right(_, _, _, _, _, _)
LU_Right(m, nn, n1, A, o, j) ==
  IF j < o + nn
  THEN LU_Right(m, nn, n1, LU_SolveCol(n1, A, o, j, 0), o, j + 1)
  ELSE A
RECURSIVE LU_Trailing(_, _, _, _, _, _)
LU_Trailing(m, nn, n1, A, o, j) ==
  IF j < o + nn
  THEN LU_Trailing(m, nn, n1, LU_UpdateCol(m, n1, A, o, j, 0), o, j + 1)
  ELSE A

\* "Adjust INFO (Fctr_00.i)"
LU_Combine(i00, i11, n1) == IF 0 = i00 THEN i11 + n1 ELSE i00

\* Mat_Fctr_LU( m, nn, A_Blk(o, o), ld, piv + o )
RECURSIVE Mat_Fctr_LU(_, _, _, _, _)
Mat_Fctr_LU(m, nn, A, o, piv) ==
  IF 0 = m \/ 0 = nn THEN [A |-> A, piv |-> piv, i |-> -1]
  ELSE IF 1 = m
  THEN [A |-> A, piv |-> [piv EXCEPT ![o] = 0],
        i |-> IF IsZero(A[<<o, o>>]) THEN 0 ELSE -1]
  ELSE IF 1 = nn THEN LU_OneColumn(m, A, o, piv)
  ELSE LET piv_n == IF m < nn THEN m ELSE nn
           n1 == piv_n \div 2
           n2 == nn - n1
           Fctr_00 == Mat_Fctr_LU(m, n1, A, o, piv)
           A1 == Mat_RowSwp(n2, Fctr_00.A, o, o + n1, 0, n1 - 1, Fctr_00.piv)
           A2 == LU_Right(m, nn, n1, A1, o, o + n1)
           A3 == LU_Trailing(m, nn, n1, A2, o, o + n1)
           Fctr_11 == Mat_Fctr_LU(m - n1, n2, A3, o + n1, Fctr_00.piv)
           piv2 == [p \in DOMAIN piv |->
                     IF p \in o + n1 .. o + piv_n - 1 THEN Fctr_11.piv[p] + n1
                     ELSE Fctr_11.piv[p]]
       IN  [A |-> Mat_RowSwp(n1, Fctr_11.A, o, o, n1, piv_n - 1, piv2),
            piv |-> piv2,
            i |-> LU_Combine(Fctr_00.i, Fctr_11.i, n1)]

LUInit ==
  /\ LibIdle
  /\ \E mm \in 0 .. MaxLU, nn \in 0 .. MaxLU :
       \E A0 \in [(0 .. mm - 1) \X (0 .. nn - 1) -> LUVals] :
         lib = [routine |-> "Mat_Fctr_LU", m |-> mm, n |-> nn, A0 |-> A0, A |-> A0,
                piv |-> [p \in 0 .. (IF mm < nn THEN mm ELSE nn) - 1 |-> -1],
                pc |-> "call", i |-> -1, success |-> FALSE]

LUCall(ms, ns) ==
  /\ lib.routine = "Mat_Fctr_LU" /\ lib.pc = "call"
  /\ lib.m \in ms /\ lib.n \in ns
  /\ \E r \in {Mat_Fctr_LU(lib.m, lib.n, lib.A, 0, lib.piv)} :
       lib' = [lib EXCEPT !.pc = "done", !.A = r.A, !.piv = r.piv, !.i = r.i,
                          !.success = TRUE]
  /\ UNCHANGED main
LU_Empty ==
  /\ lib.routine = "Mat_Fctr_LU" /\ lib.pc = "call"
  /\ (0 = lib.m \/ 0 = lib.n)
  /\ lib' = [lib EXCEPT !.pc = "done", !.success = TRUE]
  /\ UNCHANGED main
LU_OneRow == LUCall({1}, 1 .. MaxLU + 1)
LU_OneCol == LUCall(2 .. MaxLU + 1, {1})
LU_Recursive == LUCall(2 .. MaxLU + 1, 2 .. MaxLU + 1)

LUNext ==
  \/ LU_Empty
  \/ LU_OneRow
  \/ LU_OneCol
  \/ LU_Recursive

LUSpec == LUInit /\ [][LUNext]_vars

(***************************************************************************)
(* Mat_Scale and the two-vector Vec_Scale on flat buffers of exact         *)
(* integers.  d has the documented length (n for Side::Right, m for        *)
(* Side::Left); an element read past its end has an arbitrary value.       *)
(***************************************************************************)
ScaleLds == {MatLd - 1, MatLd}

\* Vec_Scale( cnt, alpha, x, xs, y, ys ), "y := alpha*x"
Flat_Scale2(cnt, alpha, xbuf, xb, xs, ybuf, yb, ys) ==
  LET zeroed == IF alpha = 0 THEN Flat_Zero(cnt, ybuf, yb, ys) ELSE ybuf
  IN  IF alpha # 1
      THEN [p \in DOMAIN zeroed |->
             IF p \in Cells(cnt, yb, ys)
             THEN LET i == CHOOSE i \in 0 .. cnt - 1 : p = yb + i * ys
                  IN  alpha * xbuf[xb + i * xs]
             ELSE zeroed[p]]
      ELSE zeroed

\* Mat_Scale< lyt >( side, m, nn, A, A_ld, dd, B, B_ld ), from pass j on; the
\* element of d read past its end is junk
RECURSIVE Mat_Scale(_, _, _, _, _, _, _, _, _, _, _)
Mat_Scale(lyt, side, j, m, nn, A, A_ld, dd, junk, B, B_ld) ==
  LET dj == IF j \in DOMAIN dd THEN dd[j] ELSE junk
  IN  IF side = "Right"
      THEN IF j < m
           THEN Mat_Scale(lyt, side, j + 1, m, nn, A, A_ld, dd, junk,
                  Flat_Scale2(nn, dj, A, BlkPtr(lyt, 0, j, A_ld), ColStride(lyt, A_ld),
                              B, BlkPtr(lyt, 0, j, A_ld), ColStride(lyt, B_ld)),
                  B_ld)
           ELSE B
      ELSE IF j < nn
           THEN Mat_Scale(lyt, side, j + 1, m, nn, A, A_ld, dd, junk,
                  Flat_Scale2(m, dj, A, BlkPtr(lyt, j, 0, A_ld), RowStride(lyt, A_ld),
                              B, BlkPtr(lyt, j, 0, A_ld), RowStride(lyt, B_ld)),
                  B_ld)
           ELSE B

ScaleInit ==
  /\ LibIdle
  /\ \/ \E lyt \in Layouts, sd \in Sides, mm \in 0 .. MaxMM, nn \in 0 .. MaxMM,
           ald \in ScaleLds, bld \in ScaleLds :
          \E dd \in [0 .. (IF sd = "Right" THEN nn ELSE mm) - 1 -> MMScalars] :
            lib = [routine |-> "Mat_Scale", layout |-> lyt, side |-> sd, m |-> mm, n |-> nn,
                   A |-> MatBuf(1), A_ld |-> ald, d |-> dd, B0 |-> MatBuf(11),
                   B |-> MatBuf(11), B_ld |-> bld, pc |-> "call"]
     \/ \E nn \in 0 .. MaxMM, al \in MMScalars :
          lib = [routine |-> "Vec_Scale", n |-> nn, alpha |-> al, x |-> MatBuf(1),
                 y0 |-> MatBuf(11), y |-> MatBuf(11), pc |-> "call"]

Scale_Mat(sd) ==
  /\ lib.routine = "Mat_Scale" /\ lib.pc = "call" /\ lib.side = sd
  /\ \E junk \in MMScalars :
       lib' = [lib EXCEPT !.pc = "done",
                          !.B = Mat_Scale(lib.layout, lib.side, 0, lib.m, lib.n, lib.A,
                                          lib.A_ld, lib.d, junk, lib.B, lib.B_ld)]
  /\ UNCHANGED main
Scale_Right == Scale_Mat("Right")
Scale_Left == Scale_Mat("Left")
Scale_Vec ==
  /\ lib.routine = "Vec_Scale" /\ lib.pc = "call"
  /\ lib' = [lib EXCEPT !.pc = "done",
                        !.y = Flat_Scale2(lib.n, lib.alpha, lib.x, 0, 1, lib.y, 0, 1)]
  /\ UNCHANGED main

ScaleNext ==
  \/ Scale_Right
  \/ Scale_Left
  \/ Scale_Vec

ScaleSpec == ScaleInit /\ [][ScaleNext]_vars

(***************************************************************************)
(* Vec_Sub and Mat_Sub on flat buffers of exact integers.                  *)
(***************************************************************************)
\* Vec_Sub( cnt, x, xs, y, ys ), "y := y - x"
Vec_Sub(cnt, xbuf, xb, xs, ybuf, yb, ys) ==
  [p \in DOMAIN ybuf |->
    IF p \in Cells(cnt, yb, ys)
    THEN LET i == CHOOSE i \in 0 .. cnt - 1 : p = yb + i * ys
         IN  ybuf[p] + xbuf[xb + i * xs]
    ELSE ybuf[p]]

\* Mat_Sub< lyt >( trnsp, m, nn, A, A_ld, B, B_ld ), from pass j on
RECURSIVE Mat_Sub(_, _, _, _, _, _, _, _, _)
Mat_Sub(lyt, trnsp, j, m, nn, A, A_ld, B, B_ld) ==
  IF lyt = "ColMajor"
  THEN IF j < m
       THEN Mat_Sub(lyt, trnsp, j + 1, m, nn, A, A_ld,
              IF trnsp = "No"
              THEN Vec_Sub(nn, A, BlkPtr(lyt, 0, j, A_ld), ColStride(lyt, A_ld),
                           B, BlkPtr(lyt, 0, j, B_ld), ColStride(lyt, B_ld))
              ELSE Vec_Sub(nn, A, BlkPtr(lyt, j, 0, A_ld), RowStride(lyt, A_ld),
                           B, BlkPtr(lyt, 0, j, B_ld), ColStride(lyt, B_ld)),
              B_ld)
       ELSE B
  ELSE IF j < nn
       THEN Mat_Sub(lyt, trnsp, j + 1, m, nn, A, A_ld,
              IF trnsp = "No"
              THEN Vec_Sub(m, A, BlkPtr(lyt, j, 0, A_ld), RowStride(lyt, A_ld),
                           B, BlkPtr(lyt, j, 0, B_ld), RowStride(lyt, B_ld))
              ELSE Vec_Sub(m, A, BlkPtr(lyt, 0, j, A_ld), ColStride(lyt, A_ld),
                           B, BlkPtr(lyt, j, 0, B_ld), RowStride(lyt, B_ld)),
              B_ld)
       ELSE B

SubInit ==
  /\ LibIdle
  /\ \/ \E lyt \in Layouts, tr \in {"No", "Yes"}, mm \in 0 .. MaxMM, nn \in 0 .. MaxMM,
           ald \in ScaleLds, bld \in ScaleLds, fa \in MMScalars :
          lib = [routine |-> "Mat_Sub", layout |-> lyt, A_trnsp |-> tr, m |-> mm, n |-> nn,
                 A |-> MatBuf(fa), A_ld |-> ald, B0 |-> MatBuf(11),
                 B |-> MatBuf(11), B_ld |-> bld, pc |-> "call"]
     \/ \E nn \in 0 .. MaxMM, fa \in MMScalars :
          lib = [routine |-> "Vec_Sub", n |-> nn, x |-> MatBuf(fa),
                 y0 |-> MatBuf(11), y |-> MatBuf(11), pc |-> "call"]

Sub_Mat(lyt) ==
  /\ lib.routine = "Mat_Sub" /\ lib.pc = "call" /\ lib.layout = lyt
  /\ lib' = [lib EXCEPT !.pc = "done",
                        !.B = Mat_Sub(lib.layout, lib.A_trnsp, 0, lib.m, lib.n, lib.A,
                                      lib.A_ld, lib.B, lib.B_ld)]
  /\ UNCHANGED main
Sub_ColMajor == Sub_Mat("ColMajor")
Sub_RowMajor == Sub_Mat("RowMajor")
Sub_Vec ==
  /\ lib.routine = "Vec_Sub" /\ lib.pc = "call"
  /\ lib' = [lib EXCEPT !.pc = "done",
                        !.y = Vec_Sub(lib.n, lib.x, 0, 1, lib.y, 0, 1)]
  /\ UNCHANGED main

SubNext ==
  \/ Sub_ColMajor
  \/ Sub_RowMajor
  \/ Sub_Vec

SubSpec == SubInit /\ [][SubNext]_vars

(***************************************************************************)
(* The general case of Rfl_VecGen, statement by statement, over the        *)
(* scalars with subnormals (signed powers of two; a sum and a hypotenuse   *)
(* are rounded to a power of two).  ups counts the multiplications by      *)
(* 1/safmin of x, alpha and beta, downs those of beta by safmin.           *)
(***************************************************************************)
ExpNeg(a) == IF a.sgn \in {-1, 1} THEN [a EXCEPT !.sgn = -a.sgn] ELSE a
\* a - b for a, b of opposite sign (or zero): the magnitudes add up
ExpSub(a, b) ==
  IF ExpIsUndefined(a) \/ ExpIsUndefined(b) THEN ExpNaN
  ELSE IF ExpIsZero(b) THEN a
  ELSE IF ExpIsZero(a) THEN ExpNeg(b)
  ELSE IF a.ex = b.ex THEN Pow2(a.sgn, a.ex + 1)
  ELSE IF a.ex > b.ex THEN a ELSE ExpNeg(b)
\* std::hypot
ExpHypot(a, b) ==
  IF ExpIsInf(a) \/ ExpIsInf(b) THEN ExpInf(1)
  ELSE IF ExpIsUndefined(a) \/ ExpIsUndefined(b) THEN ExpNaN
  ELSE IF ExpGt(ExpAbs(a), ExpAbs(b)) THEN ExpAbs(a) ELSE ExpAbs(b)
\* Vec_Norm2( cnt, x, 1 )
RECURSIVE ExpVec_Norm2(_, _)
ExpVec_Norm2(cnt, x) ==
  IF 0 = cnt THEN ExpZero ELSE ExpHypot(ExpVec_Norm2(cnt - 1, x), x[cnt - 1])
\* -CopySign( Hypot( alpha, xnorm ), alpha )
VGen_Beta(alpha, xnorm) ==
  LET h == ExpHypot(alpha, xnorm)
  IN  IF alpha.sgn = -1 THEN ExpAbs(h) ELSE ExpNeg(ExpAbs(h))
\* Abs( beta ) < safmin
VGen_Small(beta) == ExpGt(smlnum, ExpAbs(beta))
\* variant: the un-scaling loop runs while j <= knt
VGen_UnscaleMore_Inclusive(j, knt) == j <= knt
\* the test of "for( Index j = 0; j < knt; ++j )"
VGen_UnscaleMore(j, knt) == j < knt

VGenInit ==
  /\ LibIdle
  /\ \E cnt \in 2 .. MaxVec + 1, al \in ExpFinite :
       \E x0 \in [0 .. cnt - 2 -> ExpFinite] :
         lib = [routine |-> "Rfl_VecGen.general", n |-> cnt, alpha0 |-> al, x0 |-> x0,
                alpha |-> al, x |-> x0, beta |-> ExpZero, tau |-> ExpNaN,
                beta0 |-> ExpZero, beta1 |-> ExpZero,
                knt |-> 0, j |-> 0, pc |-> "xnorm",
                ups |-> [x |-> 0, alpha |-> 0, beta |-> 0], downs |-> 0]

InVGen(at) == lib.routine = "Rfl_VecGen.general" /\ lib.pc = at

\* lines 44-50: xnorm is zero, H = I
VGen_Identity ==
  /\ InVGen("xnorm")
  /\ ExpIsZero(ExpVec_Norm2(lib.n - 1, lib.x))
  /\ lib' = [lib EXCEPT !.tau = ExpZero, !.pc = "done"]
  /\ UNCHANGED main
\* lines 55-58: beta, knt = 0 and the test for the underflow branch
VGen_General ==
  /\ InVGen("xnorm")
  /\ ~ExpIsZero(ExpVec_Norm2(lib.n - 1, lib.x))
  /\ \E b \in {VGen_Beta(lib.alpha, ExpVec_Norm2(lib.n - 1, lib.x))} :
       lib' = [lib EXCEPT !.beta = b, !.beta0 = b, !.beta1 = b, !.knt = 0,
                          !.pc = IF VGen_Small(b) THEN "scale" ELSE "tau"]
  /\ UNCHANGED main
\* lines 63-70: one pass of the do/while
VGen_ScaleUp ==
  /\ InVGen("scale")
  /\ \E b \in {ExpMul(lib.beta, bignum)} :
       lib' = [lib EXCEPT !.knt = lib.knt + 1,
                          !.x = ExpVec_Scale(lib.n - 1, bignum, lib.x),
                          !.beta = b,
                          !.alpha = ExpMul(lib.alpha, bignum),
                          !.ups = [x |-> lib.ups.x + 1, alpha |-> lib.ups.alpha + 1,
                                   beta |-> lib.ups.beta + 1],
                          !.pc = IF VGen_Small(b) /\ lib.knt + 1 < 20
                                 THEN "scale" ELSE "again"]
  /\ UNCHANGED main
\* lines 74-75: xnorm and beta are computed again
VGen_Recompute ==
  /\ InVGen("again")
  /\ \E b \in {VGen_Beta(lib.alpha, ExpVec_Norm2(lib.n - 1, lib.x))} :
       lib' = [lib EXCEPT !.beta = b, !.beta1 = b, !.pc = "tau"]
  /\ UNCHANGED main
\* lines 77-78: tau and the scaling of x
VGen_Tau ==
  /\ InVGen("tau")
  /\ lib' = [lib EXCEPT !.tau = ExpDiv(ExpSub(lib.beta, lib.alpha), lib.beta),
                        !.x = ExpVec_Scale(lib.n - 1,
                                ExpDiv([sgn |-> 1, ex |-> 0], ExpSub(lib.alpha, lib.beta)),
                                lib.x),
                        !.j = 0, !.pc = "unscale"]
  /\ UNCHANGED main
\* lines 82-83: one pass of the un-scaling loop
VGen_ScaleDown ==
  /\ InVGen("unscale")
  /\ VGen_UnscaleMore(lib.j, lib.knt)
  /\ lib' = [lib EXCEPT !.beta = ExpMul(lib.beta, smlnum), !.j = lib.j + 1,
                        !.downs = lib.downs + 1]
  /\ UNCHANGED main
\* line 84: alpha = beta
VGen_Store ==
  /\ InVGen("unscale")
  /\ ~VGen_UnscaleMore(lib.j, lib.knt)
  /\ lib' = [lib EXCEPT !.alpha = lib.beta, !.pc = "done"]
  /\ UNCHANGED main

VGenNext ==
  \/ VGen_Identity
  \/ VGen_General
  \/ VGen_ScaleUp
  \/ VGen_Recompute
  \/ VGen_Tau
  \/ VGen_ScaleDown
  \/ VGen_Store

VGenSpec == VGenInit /\ [][VGenNext]_vars

(***************************************************************************)
(* Ort_From_Syt, pass by pass, on a matrix of plain values; the entries    *)
(* of the input off the diagonal are drawn from values other than the 0    *)
(* and 1 the routine stores, the diagonal holds 2.  The call of Ort_From_QL / Ort_From_QR that ends the routine is *)
(* recorded with its arguments, not followed.                              *)
(***************************************************************************)
MaxOrt == 4
OrtVals == {2, 3}
NoDelegate == [routine |-> "none", m |-> 0, n |-> 0, k |-> 0, at |-> <<0, 0>>]

\* variant: the columns are shifted from the first to the last
Ort_Lower_Order_Ascending(nn) == [p \in 1 .. nn - 1 |-> p]
\* "for( Index j = (Index)(n-1); j >= 1; --j )": the columns in loop order
Ort_Lower_Order(nn) == [p \in 1 .. nn - 1 |-> nn - p]
\* one pass of that loop: A(0,j) = zero; A(i,j) = A(i,j-1) for j < i < n
Ort_Lower_Pass(A, j, nn) ==
  [ij \in DOMAIN A |->
    IF ij[2] = j /\ ij[1] = 0 THEN 0
    ELSE IF ij[2] = j /\ ij[1] \in j + 1 .. nn - 1 THEN A[<<ij[1], j - 1>>]
    ELSE A[ij]]
\* one pass of the Upper loop: Vec_Copy( j, A_Col(0,j+1), A_cs, A_Col(0,j), A_cs )
Ort_Upper_Pass(A, j) ==
  [ij \in DOMAIN A |->
    IF ij[2] = j /\ ij[1] \in 0 .. j - 1 THEN A[<<ij[1], j + 1>>] ELSE A[ij]]

OrtInit ==
  /\ LibIdle
  /\ \E hf \in Half3, nn \in 0 .. MaxOrt :
       \E A0 \in {B \in [(0 .. nn - 1) \X (0 .. nn - 1) -> OrtVals] :
                     \A i \in 0 .. nn - 1 : B[<<i, i>>] = 2} :
         lib = [routine |-> "Ort_From_Syt", half |-> hf, n |-> nn, A0 |-> A0, A |-> A0,
                pc |-> "entry", p |-> 0, delegate |-> NoDelegate]

InOrt(at) == lib.routine = "Ort_From_Syt" /\ lib.pc = at

\* n = 0, or half is neither Upper nor Lower: nothing is done
Ort_Return ==
  /\ InOrt("entry")
  /\ (0 = lib.n \/ lib.half = "Both")
  /\ lib' = [lib EXCEPT !.pc = "done"]
  /\ UNCHANGED main
Ort_Enter ==
  /\ InOrt("entry")
  /\ 0 # lib.n /\ lib.half # "Both"
  /\ lib' = [lib EXCEPT !.pc = IF lib.half = "Upper" THEN "upper" ELSE "lower",
                        !.p = IF lib.half = "Upper" THEN 0 ELSE 1]
  /\ UNCHANGED main
\* Upper, lines 68-69: pass j = p
Ort_Upper_Shift ==
  /\ InOrt("upper") /\ lib.p < lib.n - 1
  /\ lib' = [lib EXCEPT !.A = Ort_Upper_Pass(lib.A, lib.p), !.p = lib.p + 1]
  /\ UNCHANGED main
\* Upper, lines 70-75: the last row and column, and the call of Ort_From_QL
Ort_Upper_Finish ==
  /\ InOrt("upper") /\ ~(lib.p < lib.n - 1)
  /\ lib' = [lib EXCEPT
               !.A = [ij \in DOMAIN lib.A |->
                       IF ij = <<lib.n - 1, lib.n - 1>> THEN 1
                       ELSE IF ij[1] = lib.n - 1 \/ ij[2] = lib.n - 1 THEN 0
                       ELSE lib.A[ij]],
               !.delegate = [routine |-> "Ort_From_QL", m |-> lib.n - 1, n |-> lib.n - 1,
                             k |-> lib.n - 1, at |-> <<0, 0>>],
               !.pc = "done"]
  /\ UNCHANGED main
\* Lower, lines 85-90: the p-th pass of the loop
Ort_Lower_Shift ==
  /\ InOrt("lower") /\ lib.p \in DOMAIN Ort_Lower_Order(lib.n)
  /\ lib' = [lib EXCEPT !.A = Ort_Lower_Pass(lib.A, Ort_Lower_Order(lib.n)[lib.p], lib.n),
                        !.p = lib.p + 1]
  /\ UNCHANGED main
\* Lower, lines 91-105: A(0,0), the first column, and the call of Ort_From_QR
Ort_Lower_Finish ==
  /\ InOrt("lower") /\ lib.p \notin DOMAIN Ort_Lower_Order(lib.n)
  /\ lib' = [lib EXCEPT
               !.A = [ij \in DOMAIN lib.A |->
                       IF ij = <<0, 0>> THEN 1
                       ELSE IF ij[2] = 0 THEN 0
                       ELSE lib.A[ij]],
               !.delegate = [routine |-> "Ort_From_QR", m |-> lib.n - 1, n |-> lib.n - 1,
                             k |-> lib.n - 1, at |-> <<1, 1>>],
               !.pc = "done"]
  /\ UNCHANGED main

OrtNext ==
  \/ Ort_Return
  \/ Ort_Enter
  \/ Ort_Upper_Shift
  \/ Ort_Upper_Finish
  \/ Ort_Lower_Shift
  \/ Ort_Lower_Finish

OrtSpec == OrtInit /\ [][OrtNext]_vars

(***************************************************************************)
(* Aux_CombSsq2 on its own.  A scaled sum of squares is the pair           *)
(* v[0] (scale), v[1] (sum of squares); the scales are zero or powers of   *)
(* two and the sums multiples of 16, so that every quotient and product    *)
(* of the routine is exact and the plain integers below are the values     *)
(* the floating-point build computes.                                      *)
(***************************************************************************)
SsqScales == {0, 1, 2, 4}
SsqSums == {0, 16, 32, 48}
SsqPairs == {v \in [0 .. 1 -> SsqScales \cup SsqSums] : v[0] \in SsqScales /\ v[1] \in SsqSums}
\* Sqr( a/b )*c
SqrRatioTimes(a, b, c) == (a * a * c) \div (b * b)
\* the new v1; v2 is not written
Aux_CombSsq2(v1, v2) ==
  IF v1[0] >= v2[0]
    THEN IF 0 # v1[0]
           THEN [v1 EXCEPT ![1] = v2[1] + SqrRatioTimes(v2[0], v1[0], v2[1])]
           ELSE [v1 EXCEPT ![1] = v1[1] + v2[1]]
    ELSE [v1 EXCEPT ![1] = v2[1] + SqrRatioTimes(v1[0], v2[0], v1[1]),
                    ![0] = v2[0]]

CombSsqInit ==
  /\ LibIdle
  /\ \E a \in SsqPairs, b \in SsqPairs :
       lib = [routine |-> "Aux_CombSsq2", v1_0 |-> a, v2_0 |-> b, v1 |-> a, v2 |-> b,
              pc |-> "call"]

CombSsqCall(larger) ==
  /\ lib.routine = "Aux_CombSsq2" /\ lib.pc = "call"
  /\ larger = (lib.v1[0] >= lib.v2[0])
  /\ lib' = [lib EXCEPT !.pc = "done", !.v1 = Aux_CombSsq2(lib.v1, lib.v2)]
  /\ UNCHANGED main
\* v1[0] >= v2[0]: the scale of v1 stays
CombSsq_KeepScale == CombSsqCall(TRUE)
\* v1[0] < v2[0]: v1 takes the scale of v2
CombSsq_TakeScale == CombSsqCall(FALSE)

CombSsqNext ==
  \/ CombSsq_KeepScale
  \/ CombSsq_TakeScale

CombSsqSpec == CombSsqInit /\ [][CombSsqNext]_vars


(***************************************************************************)
(* Mat_RotSeq on its own, every side, pivot and direction, one rotation    *)
(* (one pass of the loop over j) per step.  A is the m by n block at the   *)
(* origin of a store of (MaxRot+1) x (MaxRot+1) cells, so that a cell      *)
(* next to the block has a content, which is whatever the memory holds     *)
(* (fill).  The scalars are plain integers with unit 1; c and s have       *)
(* z - 1 elements.  cells and ks collect the cells of the store and the    *)
(* indices of c and s that the routine has read or written.                *)
(***************************************************************************)
MaxRot == 3
RotSides == {"Left", "Right"}
RotPivots == {"Var", "Top", "Btm"}
RotVals == {0, 1, 2}
RotStore(mm, nn, fill) ==
  [p \in (0 .. MaxRot) \X (0 .. MaxRot) |->
     IF p[1] < mm /\ p[2] < nn THEN 1 + p[1] + 2 * p[2] ELSE fill]
\* z = m for Side::Left, n for Side::Right
RotZ(side, mm, nn) == IF side = "Left" THEN mm ELSE nn
\* the value of the loop variable j in pass t = 0, 1, ...
RotLoopVar(pivot, direct, z, t) ==
  IF pivot = "Top"
    THEN IF direct = "Fwd" THEN 1 + t ELSE (z - 1) - t
    ELSE IF direct = "Fwd" THEN t ELSE ((z - 1) - 1) - t
\* the lines (rows for Left, columns for Right) of pass j: a is the line
\* saved in the temporary and written first, b the line written second,
\* rd the line the second assignment reads, kk the index into c and s
RotLines(side, pivot, direct, z, j) ==
  CASE pivot = "Var" -> [a |-> j + 1, b |-> j, rd |-> j, kk |-> j]
    [] pivot = "Top" -> [a |-> j, b |-> 0, rd |-> 0, kk |-> j - 1]
    [] pivot = "Btm" ->
         [a |-> j, b |-> z - 1,
          rd |-> IF side = "Right" /\ direct = "Fwd" THEN z ELSE z - 1,
          kk |-> j]
RotCell(side, line, i) == IF side = "Left" THEN <<line, i>> ELSE <<i, line>>
\* the body of the inner loop for one i
RotElem(side, pivot, ln, i, cj, sj, A) ==
  LET ca == RotCell(side, ln.a, i)
      cb == RotCell(side, ln.b, i)
      cr == RotCell(side, ln.rd, i)
      tmp == A[ca]
      A1 == [A EXCEPT ![ca] = IF pivot = "Btm" THEN sj * A[cb] + cj * tmp
                                               ELSE cj * tmp - sj * A[cb]]
  IN  [A1 EXCEPT ![cb] = IF pivot = "Btm" THEN cj * A1[cr] - sj * tmp
                                          ELSE sj * tmp + cj * A1[cr]]
RECURSIVE RotInner(_, _, _, _, _, _, _)
RotInner(side, pivot, ln, cnt, cj, sj, A) ==
  IF 0 = cnt THEN A
  ELSE RotElem(side, pivot, ln, cnt - 1, cj, sj,
               RotInner(side, pivot, ln, cnt - 1, cj, sj, A))
\* one pass of the loop over j
RotPass(side, pivot, direct, mm, nn, j, c, s, A) ==
  LET z == RotZ(side, mm, nn)
      ln == RotLines(side, pivot, direct, z, j)
      cnt == IF side = "Left" THEN nn ELSE mm
  IN  IF 1 # c[ln.kk] \/ 1 # s[ln.kk]
        THEN RotInner(side, pivot, ln, cnt, c[ln.kk], s[ln.kk], A)
        ELSE A
\* the cells of the store that pass j reads or writes
RotPassCells(side, pivot, direct, mm, nn, j, c, s) ==
  LET z == RotZ(side, mm, nn)
      ln == RotLines(side, pivot, direct, z, j)
      cnt == IF side = "Left" THEN nn ELSE mm
  IN  IF 1 # c[ln.kk] \/ 1 # s[ln.kk]
        THEN {RotCell(side, l, i) : l \in {ln.a, ln.b, ln.rd}, i \in 0 .. cnt - 1}
        ELSE {}

RotInit ==
  /\ LibIdle
  /\ \E side \in RotSides, pivot \in RotPivots, direct \in {"Fwd", "Bwd"},
        mm \in 0 .. MaxRot, nn \in 0 .. MaxRot, fill \in {0, 9} :
       \E c \in [0 .. RotZ(side, mm, nn) - 2 -> RotVals],
          s \in [0 .. RotZ(side, mm, nn) - 2 -> RotVals] :
         lib = [routine |-> "Mat_RotSeq", side |-> side, pivot |-> pivot,
                direct |-> direct, m |-> mm, n |-> nn, c |-> c, s |-> s,
                A0 |-> RotStore(mm, nn, fill), A |-> RotStore(mm, nn, fill),
                t |-> 0, cells |-> {}, ks |-> {}, pc |-> "call"]

InRot(at) == lib.routine = "Mat_RotSeq" /\ lib.pc = at
\* if( 0 == m || 0 == n ){ return; }
Rot_QuickReturn ==
  /\ InRot("call") /\ (0 = lib.m \/ 0 = lib.n)
  /\ lib' = [lib EXCEPT !.pc = "done"]
  /\ UNCHANGED main
Rot_Enter ==
  /\ InRot("call") /\ ~(0 = lib.m \/ 0 = lib.n)
  /\ lib' = [lib EXCEPT !.pc = "loop"]
  /\ UNCHANGED main
Rot_Pass(side) ==
  /\ InRot("loop") /\ lib.side = side
  /\ lib.t < RotZ(lib.side, lib.m, lib.n) - 1
  /\ LET j == RotLoopVar(lib.pivot, lib.direct, RotZ(lib.side, lib.m, lib.n), lib.t)
     IN  lib' = [lib EXCEPT
                   !.t = lib.t + 1,
                   !.A = RotPass(lib.side, lib.pivot, lib.direct, lib.m, lib.n, j,
                                 lib.c, lib.s, lib.A),
                   !.cells = lib.cells \cup
                             RotPassCells(lib.side, lib.pivot, lib.direct, lib.m, lib.n,
                                          j, lib.c, lib.s),
                   !.ks = lib.ks \cup
                          {RotLines(lib.side, lib.pivot, lib.direct,
                                    RotZ(lib.side, lib.m, lib.n), j).kk}]
  /\ UNCHANGED main
Rot_Pass_Left == Rot_Pass("Left")
Rot_Pass_Right == Rot_Pass("Right")
Rot_Return ==
  /\ InRot("loop")
  /\ ~(lib.t < RotZ(lib.side, lib.m, lib.n) - 1)
  /\ lib' = [lib EXCEPT !.pc = "done"]
  /\ UNCHANGED main

RotNext ==
  \/ Rot_QuickReturn
  \/ Rot_Enter
  \/ Rot_Pass_Left
  \/ Rot_Pass_Right
  \/ Rot_Return

RotSpec == RotInit /\ [][RotNext]_vars


(***************************************************************************)
(* Properties.                                                             *)
(***************************************************************************)
Solvers == {"Syt_EigVecQR", "Syt_EigQR"}
Returned == call \in Solvers /\ pc = "done"
AllZero(ee) == \A i \in DOMAIN ee : ee[i] = 0

\* C1: Solve never reports partial success: when it returns true for n >= 1,
\* every block has been processed, so that every off-diagonal e[0..n-2] is
\* exactly zero on return.
C1_NeverPartialSuccess ==
  (Returned /\ n >= 1 /\ ret = "true") => AllZero(e)

\* C2: the sweep counter stays within 0 .. n*maxIterationCount, it counts
\* exactly the implicit-shift sweeps taken (deflations and 2x2 solves leave
\* it alone), and Solve returns false only where a sweep is required
\* (the scan stopped two or more rows away from k) with the budget used up.
C2_CountWithinBudget ==
  /\ 0 <= count /\ count <= n * maxIterationCount
  /\ count = sweeps
  /\ op \in {"QL_Deflate", "QR_Deflate", "QL_Eig2", "QR_Eig2"} => count = prev.count
  /\ op \in {"QL_Sweep", "QR_Sweep"} => count = prev.count + 1
  /\ ret = "false" =>
       /\ op \in {"QL_Fail", "QR_Fail"}
       /\ count = n * maxIterationCount
       /\ IF kend >= k THEN k0 > k + 1 ELSE k0 < k - 1
\* C2 witness: a run that used its whole budget on sweeps and then failed
C2_BudgetSpent == Returned /\ ret = "false" /\ count = n * maxIterationCount /\ count > 0

C5_Progress ==
  /\ op \in {"Outer_Skip", "Outer_Block"} => k1 > prev.k1
  /\ op = "QL_Deflate" => k = prev.k + 1 /\ k <= kend + 1
  /\ op = "QL_Eig2" => k = prev.k + 2 /\ k <= kend + 1
  /\ op = "QR_Deflate" => k = prev.k - 1 /\ k >= kend - 1
  /\ op = "QR_Eig2" => k = prev.k - 2 /\ k >= kend - 1
  /\ op \in {"QL_Sweep", "QR_Sweep"} => count = prev.count + 1 /\ k = prev.k
  /\ sweeps <= n * maxIterationCount
\* C5: each Solve terminates: every outer iteration moves k1 forward, every
\* pass of the inner QL/QR loop moves k by 1 or 2 toward the block end or
\* spends one unit of the budget, at most n*maxIterationCount sweeps are
\* made, and the driver gets both solvers' results.
C5_Terminates == []C5_Progress /\ <>(call = "Syt_EigQR" /\ pc = "done")
\* C5 witness: the second solver has returned after spending its whole budget
C5_Finished ==
  call = "Syt_EigQR" /\ pc = "done" /\ sweeps = n * maxIterationCount /\ sweeps >= 2

\* C6: every access of a step is in bounds: d within 0..n-1, e within
\* 0..n-2, work within 0..2n-1 = Syt_EigVecQR_WorkSize(n) - 1 with each
\* cosine work[i], i < n, paired with the sine work[n+i], and the columns
\* of Z that Mat_RotSeq rotates within 0..n-1; Syt_EigQR touches neither
\* work nor Z.
C6_AccessInBounds ==
  /\ acc.d \subseteq 0 .. n - 1
  /\ acc.e \subseteq 0 .. n - 2
  /\ DOMAIN work = 0 .. Syt_EigVecQR_WorkSize(n) - 1
  /\ acc.work \subseteq 0 .. 2 * n - 1
  /\ \A i \in acc.work : IF i < n THEN i + n \in acc.work ELSE i - n \in acc.work
  /\ acc.zcols \subseteq 0 .. n - 1
  /\ ~IsVec => acc.work = {} /\ acc.zcols = {}
\* C6 witness: a step that uses the last sine and the last column of Z
C6_TouchesLast ==
  IsVec /\ n >= 2 /\ 2 * n - 1 \in acc.work /\ n - 1 \in acc.zcols /\ n - 2 \in acc.e

\* C7: with n = 0 the two reductions access nothing and call no helper, and
\* each Solve returns true in its first step without accessing d, e, Z or
\* work.
C7_ZeroOrderNoOp ==
  n = 0 =>
    /\ touched = NoTouch
    /\ acc = NoAcc
    /\ stepno <= 1
    /\ ret \in {"none", "true"}
    /\ Returned => ret = "true" /\ op = "Enter"
\* C7 witness: all four routines have returned for n = 0
C7_ZeroOrderDone == n = 0 /\ call = "Syt_EigQR" /\ pc = "done" /\ ret = "true"

\* C8: when every e[i] is zero on entry and n >= 1, Solve makes no sweep
\* (count stays 0), no Vec_Rescl call and no Aux_Eig2/Aux_EigVec2 call,
\* leaves d and Z as they were, and returns true.
C8_DiagonalInputUntouched ==
  (n >= 1 /\ AllZero(e_in) /\ call \in Solvers) =>
    /\ count = 0 /\ sweeps = 0 /\ rescls = 0 /\ eig2s = 0
    /\ d = d_in /\ e = e_in /\ Z = Identity(n)
    /\ ret \in {"none", "true"}
    /\ pc = "done" => ret = "true"
\* C8 witness: a diagonal input of order two or more went through both solvers
C8_DiagonalDone ==
  /\ n >= 2 /\ AllZero(e_in) /\ maxIterationCount >= 1
  /\ call = "Syt_EigQR" /\ pc = "done" /\ k1 = n

\* the block just scaled has its end smaller in magnitude than its start
C9_EndSmaller == Lt(Abs(Rd(d, kend_prev)), Abs(Rd(d, k1_prev)))
\* C9 as stated: for a block of more than one row, after scaling, the branch
\* labelled "QL iteration" runs when |d[block_end]| < |d[block_start]| and
\* the branch labelled "QR iteration" otherwise.
C9_QLWhenEndSmaller ==
  (op = "Outer_Block" /\ ret # "BadArgument") =>
    /\ pc = "ql" <=> C9_EndSmaller
    /\ pc = "qr" <=> ~C9_EndSmaller
\* C9 amended: for a block of more than one row, after scaling, the branch
\* labelled "QR iteration" runs when |d[block_end]| < |d[block_start]| and
\* the branch labelled "QL iteration" otherwise.
C9_QRWhenEndSmaller ==
  (op = "Outer_Block" /\ ret # "BadArgument") =>
    /\ pc = "qr" <=> C9_EndSmaller
    /\ pc = "ql" <=> ~C9_EndSmaller
\* C9 witness: a scaled block whose end is the smaller one
C9_ReversedBlock == op = "Outer_Block" /\ pc = "qr" /\ C9_EndSmaller

\* the 2x2 step: one closed-form call, the coupling off-diagonal cleared,
\* the cursor moved by 2, count unchanged; and no other step is taken when
\* the scan stops one row from k
C10_Step ==
  /\ op = "QL_Eig2" =>
       /\ eig2s = prev.eig2s + 1 /\ k = prev.k + 2 /\ count = prev.count
       /\ k0 = prev.k + 1 /\ e[prev.k] = 0
  /\ op = "QR_Eig2" =>
       /\ eig2s = prev.eig2s + 1 /\ k = prev.k - 2 /\ count = prev.count
       /\ k0 = prev.k - 1 /\ e[prev.k - 1] = 0
  /\ op \notin {"QL_Eig2", "QR_Eig2"} => eig2s = prev.eig2s
  /\ op \in {"QL_Deflate", "QL_Sweep", "QL_Fail"} => k0 # prev.k + 1
  /\ op \in {"QR_Deflate", "QR_Sweep", "QR_Fail"} => k0 # prev.k - 1
\* for n = 2: the input pair scaled as Solve scales it
C10_Norm == Syt_Norm_Max(2, d_in, e_in, 0)
C10_Scale == Clamp(C10_Norm, ssfmin, ssfmax)
C10_Scaled_d == Vec_Rescl(C10_Norm, C10_Scale, 2, d_in, 0)
C10_Scaled_e == Vec_Rescl(C10_Norm, C10_Scale, 1, e_in, 0)
\* the closed form of the running solver on the scaled pair
C10_Roots ==
  IF IsVec THEN Aux_EigVec2(C10_Scaled_d[0], C10_Scaled_e[0], C10_Scaled_d[1])
  ELSE Aux_Eig2(C10_Scaled_d[0], C10_Scaled_e[0], C10_Scaled_d[1])
\* the closed-form pair, and the scaled diagonal, scaled back
C10_ClosedForm ==
  IF IsZero(C10_Norm) THEN d_in
  ELSE Vec_Rescl(C10_Scale, C10_Norm, 2, [i \in 0 .. 1 |-> C10_Roots[i + 1]], 0)
C10_RoundTrip ==
  IF IsZero(C10_Norm) THEN d_in
  ELSE Vec_Rescl(C10_Scale, C10_Norm, 2, C10_Scaled_d, 0)
\* C10 as stated: the 2x2 step makes one closed-form call, clears the
\* coupling off-diagonal, moves the cursor by 2 and leaves count alone;
\* and for n = 2 and maxIterationCount >= 1 Solve makes no sweep and
\* returns true with the eigenvalues of the closed form applied to the
\* scaled pair.
C10_TwoByTwoClosedForm ==
  /\ C10_Step
  /\ (n = 2 /\ maxIterationCount >= 1 /\ call \in Solvers) =>
       /\ sweeps = 0
       /\ pc = "done" =>
            /\ ret = "true"
            /\ {d[0], d[1]} = {C10_ClosedForm[0], C10_ClosedForm[1]}
\* C10 amended: the 2x2 step is as stated; for n = 2 and
\* maxIterationCount >= 1 Solve makes no sweep and returns true, with the
\* closed-form pair of the scaled block (scaled back) in d when the
\* closed-form call was made, and with the diagonal itself (scaled and
\* scaled back if the block was scaled) when e[0] was zero or negligible
\* and no closed-form call was made.
C10_TwoByTwoStep ==
  /\ C10_Step
  /\ (n = 2 /\ maxIterationCount >= 1 /\ call \in Solvers) =>
       /\ sweeps = 0 /\ eig2s <= 1
       /\ pc = "done" =>
            /\ ret = "true"
            /\ eig2s = 1 => d = C10_ClosedForm
            /\ (eig2s = 0 /\ rescls = 0) => d = d_in
            /\ (eig2s = 0 /\ rescls > 0) => d = C10_RoundTrip
\* C10 witness: an order-two pair solved by the closed form
C10_TwoByTwoSolved ==
  n = 2 /\ maxIterationCount >= 1 /\ call = "Syt_EigQR" /\ pc = "done" /\ eig2s = 1

\* C11: for NaN-free input Solve reports non-convergence by returning false
\* and never by an exception: the Vec_Rescl calls that scale a block
\* (cfrom = anorm, cto = scale) and that scale it back (cfrom = scale,
\* cto = anorm) satisfy Vec_Rescl's preconditions, so BadArgument never
\* leaves Solve.
C11_NoException ==
  /\ ret \in {"none", "true", "false"}
  /\ op = "Outer_Block" => Vec_Rescl_BadArg(anorm, scale) = 0
  /\ op = "Unscale" => Vec_Rescl_BadArg(scale, anorm) = 0
\* C11 witness: non-convergence reported by false after a block was scaled
C11_FalseAfterRescl == Returned /\ ret = "false" /\ rescls >= 2 /\ sweeps >= 2

\* C12: every triangular-only routine (Sym_Norm, Sym_Rank2Upd,
\* Sym_Rank2kUpd, Tri_VecMul, Tri_MatMul, Tri_Solv_Vec) called with
\* half = Half::Both raises BadArgument whose arg is the 1-based position
\* of the half parameter, before any buffer is written.
C12_BothRejected ==
  (lib.routine \in TriRoutines /\ lib.pc = "done" /\ lib.half = "Both") =>
    /\ lib.out.result = "BadArgument"
    /\ lib.out.arg = HalfPosition(lib.routine)

\* C13: Vec_Rescl raises BadArgument with arg = 1 when cfrom is zero or NaN
\* and with arg = 2 when cfrom is valid and cto is NaN, for every n
\* (0 included), and then no element of x has been modified; with valid
\* arguments it returns.
C13_ArgumentChecks ==
  (lib.routine = "Vec_Rescl" /\ lib.pc = "done") =>
    IF lib.cfrom = 0 \/ lib.cfrom = undefined
    THEN lib.out = Thrown(1) /\ lib.x = lib.x0
    ELSE IF lib.cto = undefined
    THEN lib.out = Thrown(2) /\ lib.x = lib.x0
    ELSE lib.out.result = "return"
\* C13 witness: cto = NaN is rejected with n = 0 and an infinite cfrom
C13_RejectedTo ==
  /\ lib.routine = "Vec_Rescl" /\ lib.pc = "done"
  /\ lib.out = Thrown(2) /\ lib.n = 0 /\ lib.cfrom = infinity

\* the sum of the exponents and the product of the signs of a sequence of
\* non-zero finite factors
RECURSIVE ExpSum(_)
ExpSum(fs) == IF fs = <<>> THEN 0 ELSE Head(fs).ex + ExpSum(Tail(fs))
RECURSIVE SgnProd(_)
SgnProd(fs) == IF fs = <<>> THEN 1 ELSE Head(fs).sgn * SgnProd(Tail(fs))
RECURSIVE ScaledBy(_, _, _)
ScaledBy(x, fs, cnt) ==
  IF fs = <<>> THEN x ELSE ScaledBy(ExpVec_Scale(cnt, Head(fs), x), Tail(fs), cnt)
InExpLoop == lib.routine = "Vec_Rescl_Loop"
\* what holds of the factors applied so far
C14_Factors ==
  InExpLoop =>
    /\ \A i \in 1 .. Len(lib.factors) :
         \/ lib.factors[i] \in {smlnum, bignum}
         \/ i = Len(lib.factors) /\ lib.pc = "done"
    /\ lib.x = ScaledBy(lib.x0, lib.factors, lib.n)
    /\ (lib.pc = "done" /\ (lib.n = 0 \/ lib.cfrom = lib.cto)) =>
         lib.factors = <<>> /\ lib.x = lib.x0
    /\ (lib.pc = "done" /\ lib.n # 0 /\ lib.cfrom # lib.cto) =>
         IF ExpIsZero(lib.cto)
         THEN lib.factors = <<ExpZero>>
         ELSE /\ \A i \in 1 .. Len(lib.factors) :
                   lib.factors[i].sgn \in {-1, 1} /\ ~ExpIsInf(lib.factors[i])
              /\ ExpSum(lib.factors) = lib.cto.ex - lib.cfrom.ex
              /\ SgnProd(lib.factors) = lib.cto.sgn * lib.cfrom.sgn
\* C14: for finite non-zero cfrom and finite cto the loop of Vec_Rescl
\* terminates; every pass multiplies x by smlnum, by 1/smlnum or (the last
\* pass) by the final ratio; the product of the factors applied is
\* cto/cfrom; x is unchanged when cfrom == cto or n == 0.
C14_RescaleLoop == [](C14_Factors) /\ <>(InExpLoop /\ lib.pc = "done")
\* C14 witness: a call that needed two passes by bignum before the last one
C14_ThreePasses ==
  /\ InExpLoop /\ lib.pc = "done" /\ Len(lib.factors) = 3
  /\ lib.factors[1] = bignum /\ lib.factors[2] = bignum

\* C15: for every pair of finite f and g, the largest and the smallest
\* representable magnitudes included, Aux_PlnRot2 returns: neither the
\* scale >= safmax loop nor the scale <= safmin loop runs for ever.
C15_Returns == <>(lib.routine = "Aux_PlnRot2" /\ lib.pc = "done")

\* C16: Rfl_VecGen with n = 0 writes none of alpha, x and tau; with n = 1,
\* or with n >= 2 and every one of the n-1 entries of x exactly zero, it
\* sets tau = 0 and leaves alpha and every element of x unchanged.
C16_DegenerateReflector ==
  (lib.routine = "Rfl_VecGen" /\ lib.pc = "done") =>
    /\ lib.n = 0 =>
         /\ lib.writes = {}
         /\ lib.alpha = lib.alpha0 /\ lib.x = lib.x0 /\ lib.tau = lib.tau0
    /\ (lib.n = 1 \/ (lib.n >= 2 /\ \A i \in DOMAIN lib.x0 : lib.x0[i] = 0)) =>
         /\ lib.tau = 0
         /\ lib.writes = {"tau"}
         /\ lib.alpha = lib.alpha0 /\ lib.x = lib.x0
\* C16 witness: a reflector of order MaxRfl over an all-zero x, with a
\* non-zero alpha and a non-zero tau on entry
C16_ZeroVector ==
  /\ lib.routine = "Rfl_VecGen" /\ lib.pc = "done" /\ lib.n = MaxRfl
  /\ \A i \in DOMAIN lib.x0 : lib.x0[i] = 0
  /\ lib.alpha0 = 2 * unit /\ lib.tau0 # 0 /\ lib.tau = 0

\* the untruncated rank-1 update: C - tau*v*(~v*C) from the left,
\* C - tau*(C*v)*~v from the right
Untruncated(side, m, nn, v, tau, C) ==
  [ij \in DOMAIN C |->
     IF side = "Left"
     THEN C[ij] - tau * v[ij[1]]
                  * SumOver([kk \in 0 .. m - 1 |-> v[kk] * C[<<kk, ij[2]>>]], 0 .. m - 1)
     ELSE C[ij] - tau * SumOver([kk \in 0 .. nn - 1 |-> C[<<ij[1], kk>>] * v[kk]], 0 .. nn - 1)
                  * v[ij[2]]]
InRflMul == lib.routine = "Rfl_MatMul" /\ lib.pc = "done"
\* C17: for every side, tau, v and block C, Rfl_MatMul leaves C equal to the
\* untruncated rank-1 update; the elements of C outside the region trimmed
\* to lastv and lastc are not accessed by the update and keep their values;
\* with tau = 0 neither C nor work is modified.
C17_RankOneUpdate ==
  InRflMul =>
    /\ lib.out.C = Untruncated(lib.side, lib.m, lib.n, lib.v, lib.tau, lib.C0)
    /\ \A ij \in DOMAIN lib.C0 : ij \notin lib.out.cAcc => lib.out.C[ij] = lib.C0[ij]
    /\ lib.out.cAcc \subseteq DOMAIN lib.C0
    /\ lib.tau = 0 => lib.out.C = lib.C0 /\ lib.out.work = lib.work0
\* C17 witness: a left update that is trimmed in v and in the columns of C
\* and changes C
C17_TrimmedUpdate ==
  /\ InRflMul /\ lib.side = "Left" /\ lib.m = MaxBlk /\ lib.n = MaxBlk
  /\ lib.out.lastv = MaxBlk - 1 /\ lib.out.lastc = MaxBlk - 1
  /\ lib.out.C # lib.C0

\* C18: a work buffer of Rfl_MatMul_WorkSize( m, n ) = n elements suffices
\* for Rfl_MatMul on either side: no work[i] with i >= n is read or written.
C18_WorkSizeSuffices ==
  InRflMul => lib.out.workAcc \subseteq 0 .. Rfl_MatMul_WorkSize(lib.m, lib.n) - 1

\* C19: for n >= 1 and half Upper or Lower, Sym_Rdto_Syt writes every
\* d[0..n-1], e[0..n-2] and tau[0..n-2] and nothing outside these ranges;
\* once tau[i] has received its final value taui it is not overwritten by
\* a later pass; on return the diagonal of A holds d and the first
\* super-diagonal (Upper) or sub-diagonal (Lower) holds e, the unit element
\* stored there during a pass having been replaced by e[i].
C19_ReductionWrites ==
  (InRdto /\ lib.n >= 1) =>
    /\ lib.dW \subseteq 0 .. lib.n - 1
    /\ lib.eW \subseteq 0 .. lib.n - 2
    /\ lib.tauW \subseteq 0 .. lib.n - 2
    /\ \A j \in lib.finSet : lib.tau[j] = lib.finVal[j]
    /\ lib.pc = "done" =>
         /\ lib.dW = 0 .. lib.n - 1
         /\ lib.eW = 0 .. lib.n - 2
         /\ lib.tauW = 0 .. lib.n - 2
         /\ lib.finSet = 0 .. lib.n - 2
         /\ \A j \in 0 .. lib.n - 1 : lib.A[<<j, j>>] = lib.d[j]
         /\ \A j \in 0 .. lib.n - 2 : lib.A[Rdto_Alpha(lib.half, j)] = lib.e[j]
\* C19 witness: a lower reduction of order MaxOrder in which the first two
\* reflectors were applied
C19_LowerReduced ==
  /\ InRdto /\ lib.pc = "done" /\ lib.half = "Lower" /\ lib.n = MaxOrder
  /\ lib.tau[0] # 0 /\ lib.tau[1] # 0

\* |e[j]|, taken as 0 outside 0 .. n-2
OffDiagAbs(ee, j) == IF j \in DOMAIN ee THEN IAbs(ee[j]) ELSE 0
\* C20: Syt_Norm returns 0 for n = 0; for NormType::Max the largest of the
\* |d[i]| and |e[i]|; for NormType::One and NormType::Inf the largest of
\* |e[i-1]| + |d[i]| + |e[i]| over the rows i (|d[0]| for n = 1).  It
\* reads only d[0..n-1] and e[0..n-2] and modifies neither.
C20_TridiagonalNorm ==
  (lib.routine = "Syt_Norm" /\ lib.pc = "done") =>
    /\ lib.value =
         IF lib.n = 0 THEN 0
         ELSE IF lib.normType = "Max"
         THEN SetMax({IAbs(lib.d0[i]) : i \in 0 .. lib.n - 1}
                     \cup {IAbs(lib.e0[i]) : i \in 0 .. lib.n - 2})
         ELSE SetMax({OffDiagAbs(lib.e0, i - 1) + IAbs(lib.d0[i]) + OffDiagAbs(lib.e0, i)
                      : i \in 0 .. lib.n - 1})
    /\ lib.reads.d \subseteq 0 .. lib.n - 1
    /\ lib.reads.e \subseteq 0 .. lib.n - 2
    /\ lib.d = lib.d0 /\ lib.e = lib.e0
\* C20 witness: a one-norm of order MaxN attained in the last row only
C20_LastRowLargest ==
  /\ lib.routine = "Syt_Norm" /\ lib.pc = "done" /\ lib.normType = "One" /\ lib.n = MaxN
  /\ lib.value = IAbs(lib.e0[MaxN - 2]) + IAbs(lib.d0[MaxN - 1])
  /\ \A i \in 0 .. MaxN - 2 :
       OffDiagAbs(lib.e0, i - 1) + IAbs(lib.d0[i]) + OffDiagAbs(lib.e0, i) < lib.value
(***************************************************************************)
(* C21.  For every m, n, k >= 0 and both layouts Mat_MatMul leaves         *)
(* C(i,j) = alpha * sum over l < k of op(A)(i,l) * op(B)(l,j) + beta *     *)
(* C(i,j) on the m x n block, in particular beta * C(i,j) when alpha = 0   *)
(* or k = 0, and leaves every cell outside the block as it was.            *)
(***************************************************************************)
MatMul_OpA(i, l) ==
  lib.A[IF lib.A_trnsp = "No" THEN BlkPtr(lib.layout, i, l, MatLd)
        ELSE BlkPtr(lib.layout, l, i, MatLd)]
MatMul_OpB(l, j) ==
  lib.B[IF lib.B_trnsp = "No" THEN BlkPtr(lib.layout, l, j, MatLd)
        ELSE BlkPtr(lib.layout, j, l, MatLd)]
MatMul_Expected ==
  [p \in DOMAIN lib.C0 |->
    IF \E i \in 0 .. lib.m - 1, j \in 0 .. lib.n - 1 : p = BlkPtr(lib.layout, i, j, MatLd)
    THEN LET ij == CHOOSE ij \in (0 .. lib.m - 1) \X (0 .. lib.n - 1) :
                     p = BlkPtr(lib.layout, ij[1], ij[2], MatLd)
         IN  lib.beta * lib.C0[p]
             + lib.alpha * SumOver([l \in 0 .. lib.k - 1 |->
                                     MatMul_OpA(ij[1], l) * MatMul_OpB(l, ij[2])],
                                   0 .. lib.k - 1)
    ELSE lib.C0[p]]
C21_ProductOnBlock ==
  (lib.routine = "Mat_MatMul" /\ lib.pc = "done") => lib.C = MatMul_Expected

(***************************************************************************)
(* C22.  The result of Mat_Fctr_LU has i >= 0 exactly when the computed    *)
(* factor U has an exactly zero diagonal element, and i is then the first  *)
(* index with U(i,i) = 0: no zero pivot of the trailing factorization is   *)
(* lost and none is reported for a non-singular factor.                    *)
(***************************************************************************)
LU_ZeroPivots ==
  {j \in 0 .. (IF lib.m < lib.n THEN lib.m ELSE lib.n) - 1 : IsZero(lib.A[<<j, j>>])}
C22_ZeroPivotReported ==
  (lib.routine = "Mat_Fctr_LU" /\ lib.pc = "done") =>
    /\ lib.success
    /\ (lib.i >= 0) = (LU_ZeroPivots # {})
    /\ LU_ZeroPivots # {} =>
         /\ lib.i \in LU_ZeroPivots
         /\ \A j \in LU_ZeroPivots : lib.i <= j

(***************************************************************************)
(* C23.  Mat_Scale leaves B(i,j) = A(i,j) * d[j] (Side::Right) or          *)
(* B(i,j) = d[i] * A(i,j) (Side::Left) on the m x n block, for every d     *)
(* value, also for m /= n and B_ld /= A_ld, and the two-vector Vec_Scale   *)
(* leaves y[i] = alpha * x[i] for i < n, for every alpha.                  *)
(***************************************************************************)
Scale_Expected ==
  [p \in DOMAIN lib.B0 |->
    IF \E i \in 0 .. lib.m - 1, j \in 0 .. lib.n - 1 : p = BlkPtr(lib.layout, i, j, lib.B_ld)
    THEN LET ij == CHOOSE ij \in (0 .. lib.m - 1) \X (0 .. lib.n - 1) :
                     p = BlkPtr(lib.layout, ij[1], ij[2], lib.B_ld)
         IN  lib.A[BlkPtr(lib.layout, ij[1], ij[2], lib.A_ld)]
             * lib.d[IF lib.side = "Right" THEN ij[2] ELSE ij[1]]
    ELSE lib.B0[p]]
C23_ScaledByDiagonal ==
  /\ (lib.routine = "Mat_Scale" /\ lib.pc = "done") => lib.B = Scale_Expected
  /\ (lib.routine = "Vec_Scale" /\ lib.pc = "done") =>
       \A p \in DOMAIN lib.y :
         lib.y[p] = IF p < lib.n THEN lib.alpha * lib.x[p] ELSE lib.y0[p]

(***************************************************************************)
(* C24.  Vec_Sub leaves y[i] = y[i] - x[i] for every i < n, and Mat_Sub    *)
(* leaves B(i,j) = B(i,j) - A(i,j) (Trnsp::No) or B(i,j) - A(j,i)          *)
(* (Trnsp::Yes) on every element of the m x n block B, in both layouts,    *)
(* also for m /= n; nothing else is changed.                               *)
(***************************************************************************)
Sub_Expected ==
  [p \in DOMAIN lib.B0 |->
    IF \E i \in 0 .. lib.m - 1, j \in 0 .. lib.n - 1 : p = BlkPtr(lib.layout, i, j, lib.B_ld)
    THEN LET ij == CHOOSE ij \in (0 .. lib.m - 1) \X (0 .. lib.n - 1) :
                     p = BlkPtr(lib.layout, ij[1], ij[2], lib.B_ld)
         IN  lib.B0[p]
             - lib.A[IF lib.A_trnsp = "No" THEN BlkPtr(lib.layout, ij[1], ij[2], lib.A_ld)
                     ELSE BlkPtr(lib.layout, ij[2], ij[1], lib.A_ld)]
    ELSE lib.B0[p]]
C24_Difference ==
  /\ (lib.routine = "Vec_Sub" /\ lib.pc = "done") =>
       \A p \in DOMAIN lib.y :
         lib.y[p] = IF p < lib.n THEN lib.y0[p] - lib.x[p] ELSE lib.y0[p]
  /\ (lib.routine = "Mat_Sub" /\ lib.pc = "done") => lib.B = Sub_Expected

(***************************************************************************)
(* C25.  In Syt_EigVecQR::Solve Z changes only in a step that calls        *)
(* Mat_RotSeq( Side::Right, ... ).  A QL sweep of the block k .. k0        *)
(* generates the rotations k0-1, ..., k in that order and its one          *)
(* Mat_RotSeq call applies exactly these k0 - k rotations, in that order,  *)
(* rotation i to the columns i, i+1, so to the columns k .. k0; a QR sweep *)
(* of the block k0 .. k generates and applies the rotations k0, ..., k-1   *)
(* to the columns k0 .. k; a 2 x 2 step applies the one rotation it stored *)
(* at index k to the columns k, k+1 (QL) or k-1, k (QR).                   *)
(***************************************************************************)
RotOps == {"QL_Eig2", "QL_Sweep", "QR_Eig2", "QR_Sweep"}
\* the plane rotation (c, s) on the columns col, col + 1 of every row
ZRot(Zm, col, c, s) ==
  [i \in DOMAIN Zm |->
    [j \in DOMAIN Zm[i] |->
      IF j = col THEN Add(Mul(s, Zm[i][col + 1]), Mul(c, Zm[i][col]))
      ELSE IF j = col + 1 THEN Sub(Mul(c, Zm[i][col + 1]), Mul(s, Zm[i][col]))
      ELSE Zm[i][j]]]
\* the rotations rots[1], rots[2], ... applied in that order; a rotation is
\* <<index in C and S, left column>>
RECURSIVE ZRots(_, _, _)
ZRots(Zm, rots, wk) ==
  IF rots = <<>> THEN Zm
  ELSE ZRots(ZRot(Zm, Head(rots)[2], wk[C_off + Head(rots)[1]], wk[S_off + Head(rots)[1]]),
             Tail(rots), wk)
\* the entries of C and S that hold the rotations lo .. hi
RotEntries(lo, hi) == UNION {{C_off + i, S_off + i} : i \in lo .. hi}
C25_Step ==
  /\ Z' # Z => (IsVec /\ op' \in RotOps)
  /\ (IsVec /\ op' \notin RotOps) => acc'.zcols = {}
  /\ (IsVec /\ op' = "QL_Sweep") =>
       /\ k0' >= k + 2
       /\ Z' = ZRots(Z, [j \in 1 .. k0' - k |-> <<k0' - j, k0' - j>>], work')
       /\ acc'.zcols = k .. k0'
       /\ acc'.work = RotEntries(k, k0' - 1)
  /\ (IsVec /\ op' = "QR_Sweep") =>
       /\ k0' <= k - 2
       /\ Z' = ZRots(Z, [j \in 1 .. k - k0' |-> <<k0' + j - 1, k0' + j - 1>>], work')
       /\ acc'.zcols = k0' .. k
       /\ acc'.work = RotEntries(k0', k - 1)
  /\ (IsVec /\ op' = "QL_Eig2") =>
       /\ Z' = ZRots(Z, <<(<<k, k>>)>>, work')
       /\ acc'.zcols = {k, k + 1}
       /\ acc'.work = RotEntries(k, k)
  /\ (IsVec /\ op' = "QR_Eig2") =>
       /\ Z' = ZRots(Z, <<(<<k, k - 1>>)>>, work')
       /\ acc'.zcols = {k - 1, k}
       /\ acc'.work = RotEntries(k, k)
C25_RotationsApplied == [][C25_Step]_vars
C25_TwoRotations ==
  /\ IsVec /\ op \in {"QL_Sweep", "QR_Sweep"}
  /\ Cardinality(acc.zcols) = 3
  /\ Z # Identity(n)

(***************************************************************************)
(* C26.  A block of more than one row that Solve rescales has              *)
(* d[k1_prev .. kend_prev] multiplied by scale/anorm before its iteration  *)
(* and exactly the same range multiplied by anorm/scale once it has        *)
(* converged, whether or not the cursors k and kend were exchanged, and    *)
(* k1_prev, kend_prev, anorm and scale stay as they are in between.  The   *)
(* Vec_Rescl calls come in threes (d and e up, d back): on a true return   *)
(* every block scaled up has been scaled back, on a false return the       *)
(* active block is left scaled.                                            *)
(***************************************************************************)
\* the value v after Vec_Rescl( cfrom, cto, ... ) went over it
Rescaled(cfrom, cto, v) == Vec_Rescl(cfrom, cto, 1, [j \in {0} |-> v], 0)[0]
RescaledRange(cfrom, cto, arr, lo, hi) ==
  [i \in DOMAIN arr |-> IF i \in lo .. hi THEN Rescaled(cfrom, cto, arr[i]) ELSE arr[i]]
InBlock == pc \in {"ql", "qr", "unscale"}
C26_Balance ==
  call \in Solvers =>
    /\ InBlock => rescls % 3 = 2
    /\ (pc = "outer" \/ (pc = "done" /\ ret = "true")) => rescls % 3 = 0
    /\ (pc = "done" /\ ret = "false") => rescls % 3 = 2
    /\ ret # "BadArgument"
C26_Step ==
  /\ (op' = "Outer_Block" /\ pc = "outer") =>
       /\ k1_prev' < kend_prev'
       /\ {k', kend'} = {k1_prev', kend_prev'}
       /\ d' = RescaledRange(anorm', scale', d, k1_prev', kend_prev')
       /\ \A i \in k1_prev' .. kend_prev' - 1 : e'[i] = Rescaled(anorm', scale', e[i])
  /\ (InBlock /\ pc' # "entry") =>
       UNCHANGED <<k1_prev, kend_prev, anorm, scale>>
  /\ (op' = "Unscale" /\ pc = "unscale") =>
       /\ pc' = "outer"
       /\ d' = RescaledRange(scale, anorm, d, k1_prev, kend_prev)
       /\ e' = e
  /\ (rescls' # rescls /\ pc' # "entry") =>
       \/ op' = "Outer_Block" /\ pc = "outer" /\ rescls' = rescls + 2
       \/ op' = "Unscale" /\ pc = "unscale" /\ rescls' = rescls + 1
C26_ScaledAndBack == [](C26_Balance) /\ [][C26_Step]_vars
C26_ReversedBlockUnscaled ==
  /\ op = "Unscale" /\ pc = "outer"
  /\ kend = k1_prev /\ k1_prev < kend_prev
  /\ scale # anorm
  /\ sweeps >= 1

(***************************************************************************)
(* C27.  When Rfl_VecGen takes its underflow branch (|beta| < safmin) the  *)
(* rescaling loop runs at least once and at most 20 times, x, alpha and    *)
(* beta are each multiplied by 1/safmin once per pass (knt times in all),  *)
(* and the final loop multiplies beta by safmin exactly knt times; when    *)
(* the branch is not taken knt stays 0 and beta is not un-scaled.          *)
(***************************************************************************)
RECURSIVE ExpMulTimes(_, _, _)
ExpMulTimes(a, factor, times) ==
  IF times = 0 THEN a ELSE ExpMulTimes(ExpMul(a, factor), factor, times - 1)
VGen_Entered == VGen_Small(lib.beta0)
C27_UnderflowLoop ==
  lib.routine = "Rfl_VecGen.general" =>
    /\ lib.ups = [x |-> lib.knt, alpha |-> lib.knt, beta |-> lib.knt]
    /\ lib.knt \in 0 .. 20 /\ lib.downs <= lib.knt
    /\ lib.pc \in {"again", "tau", "unscale"} =>
         /\ VGen_Entered <=> lib.knt >= 1
         /\ lib.x = IF lib.pc = "unscale" THEN lib.x
                    ELSE [i \in DOMAIN lib.x0 |-> ExpMulTimes(lib.x0[i], bignum, lib.knt)]
         /\ lib.pc # "unscale" => lib.alpha = ExpMulTimes(lib.alpha0, bignum, lib.knt)
         /\ lib.pc = "again" => lib.beta = ExpMulTimes(lib.beta0, bignum, lib.knt)
    /\ (lib.pc = "done" /\ ~ExpIsZero(lib.beta0)) =>
         /\ VGen_Entered <=> lib.knt >= 1
         /\ lib.downs = lib.knt
         /\ lib.alpha = ExpMulTimes(lib.beta1, smlnum, lib.knt)
    /\ (lib.pc = "done" /\ ExpIsZero(lib.beta0)) =>
         lib.knt = 0 /\ lib.downs = 0 /\ lib.alpha = lib.alpha0 /\ lib.x = lib.x0
C27_Rescaled ==
  /\ lib.routine = "Rfl_VecGen.general" /\ lib.pc = "done"
  /\ VGen_Entered /\ lib.knt >= 1 /\ lib.downs = lib.knt
  /\ lib.alpha # lib.beta1

(***************************************************************************)
(* C28.  Ort_From_Syt, n >= 1.  Half::Lower: A(i,j) becomes the input's    *)
(* A(i,j-1) for every j = 1 .. n-1 and j < i < n (a column is read before  *)
(* it is written), row 0 and column 0 become those of the unit matrix,     *)
(* and Ort_From_QR is called on the trailing (n-1) x (n-1) block.          *)
(* Half::Upper: A(i,j) becomes the input's A(i,j+1) for j = 0 .. n-2 and   *)
(* i < j, the last row and column become those of the unit matrix, and     *)
(* Ort_From_QL is called on the leading block.  For n = 1 the result is    *)
(* the 1 x 1 unit matrix.  The other elements are left alone.              *)
(***************************************************************************)
OrtUnit(i, j) == IF i = j THEN 1 ELSE 0
C28_Lower ==
  /\ \A ij \in DOMAIN lib.A :
       lib.A[ij] = IF ij[1] = 0 \/ ij[2] = 0 THEN OrtUnit(ij[1], ij[2])
                   ELSE IF ij[1] > ij[2] THEN lib.A0[<<ij[1], ij[2] - 1>>]
                   ELSE lib.A0[ij]
  /\ lib.delegate = [routine |-> "Ort_From_QR", m |-> lib.n - 1, n |-> lib.n - 1,
                     k |-> lib.n - 1, at |-> <<1, 1>>]
C28_Upper ==
  /\ \A ij \in DOMAIN lib.A :
       lib.A[ij] = IF ij[1] = lib.n - 1 \/ ij[2] = lib.n - 1 THEN OrtUnit(ij[1], ij[2])
                   ELSE IF ij[1] < ij[2] THEN lib.A0[<<ij[1], ij[2] + 1>>]
                   ELSE lib.A0[ij]
  /\ lib.delegate = [routine |-> "Ort_From_QL", m |-> lib.n - 1, n |-> lib.n - 1,
                     k |-> lib.n - 1, at |-> <<0, 0>>]
C28_ReflectorsShifted ==
  lib.routine = "Ort_From_Syt" =>
    /\ (lib.pc = "done" /\ lib.n >= 1 /\ lib.half = "Lower") => C28_Lower
    /\ (lib.pc = "done" /\ lib.n >= 1 /\ lib.half = "Upper") => C28_Upper
    /\ (lib.pc = "done" /\ lib.n = 1 /\ lib.half # "Both") => lib.A[<<0, 0>>] = 1
    \* the column a later pass reads is still the input's
    /\ lib.pc = "lower" =>
         \A ij \in DOMAIN lib.A :
           (lib.p \in DOMAIN Ort_Lower_Order(lib.n) /\ ij[2] <= Ort_Lower_Order(lib.n)[lib.p] - 1)
             => lib.A[ij] = lib.A0[ij]
    /\ lib.pc = "upper" =>
         \A ij \in DOMAIN lib.A : ij[2] >= lib.p + 1 => lib.A[ij] = lib.A0[ij]
C28_LowerShifted ==
  /\ lib.routine = "Ort_From_Syt" /\ lib.pc = "done" /\ lib.half = "Lower" /\ lib.n = MaxOrt
  /\ lib.A0[<<3, 0>>] # lib.A0[<<3, 1>>] /\ lib.A0[<<3, 1>>] # lib.A0[<<3, 2>>]
  /\ lib.A[<<3, 2>>] = lib.A0[<<3, 1>>] /\ lib.A[<<3, 1>>] = lib.A0[<<3, 0>>]

(***************************************************************************)
(* C29.  Aux_CombSsq2 on non-negative inputs: after the call               *)
(* v1[0]^2 * v1[1] is the old v1[0]^2 * v1[1] plus v2[0]^2 * v2[1], v1[0]  *)
(* is the larger of the old v1[0] and v2[0], and v2 is unchanged.          *)
(***************************************************************************)
SsqValue(v) == v[0] * v[0] * v[1]
SsqMax(a, b) == IF a >= b THEN a ELSE b
C29_SumOfSquaresAdded ==
  (lib.routine = "Aux_CombSsq2" /\ lib.pc = "done") =>
    /\ SsqValue(lib.v1) = SsqValue(lib.v1_0) + SsqValue(lib.v2_0)
    /\ lib.v1[0] = SsqMax(lib.v1_0[0], lib.v2_0[0])
    /\ lib.v2 = lib.v2_0


(***************************************************************************)
(* C30.  For every side, pivot, direction and m, n >= 0 Mat_RotSeq reads   *)
(* and writes only A(i,j) with 0 <= i < m, 0 <= j < n and only c[k], s[k]  *)
(* with 0 <= k < z-1, and for a given side and pivot a rotation of the     *)
(* Fwd variant is the same update of A as that rotation of the Bwd         *)
(* variant.                                                                *)
(***************************************************************************)
RotBlock == (0 .. lib.m - 1) \X (0 .. lib.n - 1)
RotLoopVars ==
  {RotLoopVar(lib.pivot, lib.direct, RotZ(lib.side, lib.m, lib.n), t) :
     t \in 0 .. RotZ(lib.side, lib.m, lib.n) - 2}
C30_Footprint ==
  /\ lib.cells \subseteq RotBlock
  /\ lib.ks \subseteq 0 .. RotZ(lib.side, lib.m, lib.n) - 2
C30_SameUpdate ==
  InRot("loop") =>
    \A j \in RotLoopVars :
      RotPass(lib.side, lib.pivot, "Fwd", lib.m, lib.n, j, lib.c, lib.s, lib.A)
        = RotPass(lib.side, lib.pivot, "Bwd", lib.m, lib.n, j, lib.c, lib.s, lib.A)
C30_InBlockSameUpdate ==
  lib.routine = "Mat_RotSeq" => (C30_Footprint /\ C30_SameUpdate)


=============================================================================
